---- MODULE Spec2Model ----
(***************************************************************************)
(* Model of the job subsystem of the backend: the job template registry    *)
(* (job_template_manager.py over repositories/base.py), the job dispatcher *)
(* (tasks/execution/base_executor.py), the task status / cancel endpoints  *)
(* (routers/jobs/celery_api.py), the Celery settings endpoint              *)
(* (routers/jobs/celery_settings.py), the queue purge and status endpoints *)
(* (routers/jobs/celery_status.py), the cache endpoints                    *)
(* (routers/settings/cache.py), the application startup (main.py) and the  *)
(* bulk template import (routers/settings/templates.py).                   *)
(*                                                                         *)
(* Each subsystem has its own specification (SpecTemplates, SpecDispatch,  *)
(* SpecTasks, SpecSettings, SpecPurge, SpecCache, SpecStartup, ...); the   *)
(* variables of the other subsystems stay at their initial value.          *)
(*                                                                         *)
(* Python's None is the string "None" where the other values are strings;  *)
(* an Optional keyword argument is "given" when its key is in the DOMAIN   *)
(* of the argument record; an Optional query result is a set of at most    *)
(* one element.                                                            *)
(***************************************************************************)
EXTENDS Integers, Sequences, FiniteSets, TLC

VARIABLES
    templates,   \* rows of the job_templates table
    nextId,      \* next primary key the table assigns
    tplLast,     \* the last registry call: operation, arguments, result
    dispLast,    \* the last execute_job_type call: arguments and returned dict
    execCalls,   \* executor invocations made by that call, in order
    submitted,   \* task ids handed out by a submit endpoint
    brokerQueue, \* task messages waiting in the broker for a worker
    backend,     \* result backend: task id -> recorded state
    running,     \* tasks executing on a worker
    revokeSent,  \* revoke broadcasts sent and not yet received by the workers
    workerRevoked,    \* task ids in the workers' revoked set
    cancelledPending, \* history: ids cancel_task was called on while the
                      \* task was PENDING and still waiting in the broker
    taskLast,    \* the last task endpoint call and its response
    celerySettings,   \* the Celery settings row of the settings store
    setLast,     \* the last update_celery_settings call and its outcome
    task_queues, \* celery_app.conf.task_queues: the configured queue names
    pending,     \* broker: queue name -> number of waiting messages
    purgePc,     \* purge_all_queues: "idle", "loop", "done" or "failed"
    purgeIdx,    \* position of the loop over task_queues
    purged_queues,    \* the per-queue results collected so far
    total_purged,     \* the running total
    purgeTrace,  \* history: per queue, the depth the broker held before the
                 \* purge, what the purge removed and whether it raised
    purgeCall,   \* purge_queue: the call in progress or the last one, with
                 \* its response
    fleet,       \* live workers: worker name -> queues consumed, active tasks
    brokerMode,  \* Redis: "up", "down" (refuses) or "silent" (never answers)
    beatKeys,    \* the beat keys present in Redis
    environ,     \* process environment and Celery configuration
    resultKeys,  \* the celery-task-meta-* records present in Redis
    clock,       \* the current time, in hours
    cleanup_age_hours, \* the retention setting of the stored Celery settings
    ctlLast,     \* the read endpoint call in progress or just answered
    creating,    \* concurrent create_job_template calls: caller -> progress
    cache,       \* cache_service: key -> entry (value, expires_at)
    now,         \* the cache's clock, in units of the shortest ttl
    cacheLast,   \* the last cache operation and what it returned
    startCfg,    \* startup: the cache settings and the selected repository
    startPc,     \* lifespan: the startup step to run next
    startLog,    \* the startup steps whose failure was logged
    loopReady,   \* event loop: the ready tasks, in the order scheduled
    serving,     \* the server handles requests
    firstRequest, \* what the first request read under the commits key
    importReq,   \* the import request: source type, units, overwrite flag
    importResp   \* the response of import_templates, None before the call

tplVars == <<templates, nextId, tplLast>>

dispVars == <<dispLast, execCalls>>

taskVars == <<submitted, brokerQueue, backend, running, revokeSent,
              workerRevoked, cancelledPending, taskLast>>

setVars == <<celerySettings, setLast>>

purgeVars == <<task_queues, pending, purgePc, purgeIdx, purged_queues,
               total_purged, purgeTrace>>

pqVars == <<purgeCall>>

ctlVars == <<fleet, brokerMode, beatKeys, environ, resultKeys, clock,
             cleanup_age_hours, ctlLast>>

raceVars == <<creating>>

cacheVars == <<cache, now, cacheLast>>

startVars == <<startCfg, startPc, startLog, loopReady, serving, firstRequest>>

importVars == <<importReq, importResp>>

appVars == <<raceVars, cacheVars, startVars, importVars>>

vars == <<tplVars, dispVars, taskVars, setVars, purgeVars, pqVars, ctlVars,
          appVars>>

None == "None"

----------------------------------------------------------------------------
(* Job template registry                                                   *)

\* Number of primary keys the table hands out before the model stops creating.
MaxTemplates == 2

Names == {"a", "b"}

Users == {"u1", "u2"}

TemplateIds == 1..MaxTemplates

UpdateKeys == {"name", "description", "is_global", "user_id"}

\* Keyword arguments of update_job_template; a key outside the DOMAIN is an
\* argument left at its default None. The description, which no check reads,
\* is given alone or not at all.
UpdateArgs ==
    UNION { { [k \in D |-> CASE k = "name" -> n
                             [] k = "description" -> "d"
                             [] k = "is_global" -> g
                             [] k = "user_id" -> u] :
                n \in Names, g \in BOOLEAN, u \in Users } :
            D \in SUBSET (UpdateKeys \ {"description"}) \cup {{"description"}} }

Has(args, k) == k \in DOMAIN args

\* The uniqueness namespace of a stored template.
Scope(t) == IF t.is_global THEN "global" ELSE t.user_id

\* repo.check_name_exists(name, user_id, exclude_id): is the name taken in
\* the scope of user_id (None: the global scope), not counting excluded ids.
check_name_exists(ts, name, user_id, exclude) ==
    \E t \in ts :
        /\ t.name = name
        /\ t.id \notin exclude
        /\ IF user_id = None THEN t.is_global
                             ELSE ~t.is_global /\ t.user_id = user_id

\* A plausible slip: the caller's user_id is used for a global template too.
CreateScopeAlwaysUser(user_id, is_global) == user_id

\* "user_id if not is_global else None", the scope create checks and stores.
CreateScope(user_id, is_global) == IF ~is_global THEN user_id ELSE None

\* BaseRepository.get_by_id: the row with that id, if any.
get_by_id(ts, id) == {t \in ts : t.id = id}

\* get_job_template: the template as a dict, or None (the empty set).
get_job_template(ts, id) == get_by_id(ts, id)

\* BaseRepository.create: one more row, with the next primary key.
RepoCreate(ts, id, name, is_global, user_id) ==
    ts \cup {[id |-> id, name |-> name, job_type |-> "example",
              is_global |-> is_global, user_id |-> user_id]}

\* The update_data dict update_job_template builds from its arguments.
UpdateData(args) ==
    LET keys ==
            (IF Has(args, "name") THEN {"name"} ELSE {})
            \cup (IF Has(args, "description") THEN {"description"} ELSE {})
            \cup (IF Has(args, "is_global") THEN {"is_global"} ELSE {})
            \cup (IF Has(args, "is_global") /\ args.is_global
                    THEN {"user_id"}
                    ELSE IF Has(args, "is_global") /\ Has(args, "user_id")
                           THEN {"user_id"} ELSE {})
    IN  [k \in keys |->
            IF k = "user_id"
              THEN (IF args.is_global THEN None ELSE args.user_id)
              ELSE args[k]]

\* BaseRepository.update: setattr for every key the model has (hasattr).
RepoUpdate(ts, id, data) ==
    { IF t.id = id
        THEN [k \in DOMAIN t |-> IF k \in DOMAIN data THEN data[k] ELSE t[k]]
        ELSE t : t \in ts }

\* A plausible slip: the delete is never committed.
RepoDeleteNoCommit(ts, id) == ts

\* BaseRepository.delete: the row with that id is removed.
RepoDelete(ts, id) == {t \in ts : t.id # id}

TplCall(op, id, args, result) ==
    [op |-> op, id |-> id, args |-> args, result |-> result]

\* The model stops adding rows once MaxTemplates primary keys are used.
create_job_template(name, user_id, is_global) ==
    LET args == [name |-> name, user_id |-> user_id, is_global |-> is_global]
    IN  IF check_name_exists(templates, name, CreateScope(user_id, is_global), {})
          THEN /\ tplLast' = TplCall("create", 0, args, "duplicate")
               /\ UNCHANGED <<templates, nextId>>
          ELSE /\ nextId <= MaxTemplates
               /\ templates' = RepoCreate(templates, nextId, name, is_global,
                                          CreateScope(user_id, is_global))
               /\ nextId' = nextId + 1
               /\ tplLast' = TplCall("create", nextId, args, "ok")

update_job_template(template_id, args) ==
    IF /\ Has(args, "name")
       /\ check_name_exists(templates, args.name,
                            IF Has(args, "user_id") THEN args.user_id ELSE None,
                            {template_id})
      THEN /\ tplLast' = TplCall("update", template_id, args, "duplicate")
           /\ UNCHANGED <<templates, nextId>>
      ELSE LET data == UpdateData(args)
               found == get_by_id(templates, template_id) # {}
           IN  /\ tplLast' = TplCall("update", template_id, args,
                                     IF found THEN "ok" ELSE "not_found")
               /\ templates' = IF DOMAIN data = {}
                                 THEN templates
                                 ELSE RepoUpdate(templates, template_id, data)
               /\ UNCHANGED nextId

delete_job_template(template_id) ==
    LET found == get_by_id(templates, template_id) # {}
    IN  /\ templates' = IF found THEN RepoDelete(templates, template_id)
                                 ELSE templates
        /\ tplLast' = TplCall("delete", template_id, <<>>,
                              IF found THEN "true" ELSE "false")
        /\ UNCHANGED nextId

CreateStep ==
    /\ \E n \in Names, u \in Users, g \in BOOLEAN : create_job_template(n, u, g)
    /\ UNCHANGED <<dispVars, taskVars, setVars, purgeVars, pqVars, ctlVars,
                   appVars>>

UpdateStep ==
    /\ \E id \in TemplateIds, args \in UpdateArgs : update_job_template(id, args)
    /\ UNCHANGED <<dispVars, taskVars, setVars, purgeVars, pqVars, ctlVars,
                   appVars>>

DeleteStep ==
    /\ \E id \in TemplateIds : delete_job_template(id)
    /\ UNCHANGED <<dispVars, taskVars, setVars, purgeVars, pqVars, ctlVars,
                   appVars>>

InitTemplates ==
    /\ templates = {}
    /\ nextId = 1
    /\ tplLast = TplCall("none", 0, <<>>, "none")

NextTemplates == CreateStep \/ UpdateStep \/ DeleteStep

----------------------------------------------------------------------------
(* Job dispatcher (tasks/execution/base_executor.py)                       *)
(* An Optional value is <<>> for None and <<v>> for the value v; a dict is *)
(* the set of its keys, a list a sequence.                                 *)

NoneV == <<>>

Some(v) == <<v>>

JobTypes == {"example", "Example", "backup", ""}

JobParameters == {NoneV, Some({}), Some({"vlan"})}

TargetDevices == {NoneV, Some(<<>>), Some(<<"dev1">>)}

\* Argument tuples of execute_job_type (task_context is opaque and unused).
DispatchArgs ==
    [schedule_id : {NoneV, Some(1)}, credential_id : {NoneV, Some(1)},
     job_parameters : JobParameters, target_devices : TargetDevices,
     template : {NoneV, Some({"name"})}, job_run_id : {NoneV, Some(1)}]

\* Python's "x or default" for an Optional container: None and the empty
\* container are both falsy.
OrDefault(x, empty) == IF x = NoneV \/ x = Some(empty) THEN empty ELSE x[1]

\* execute_example: the dict it returns for its keyword arguments.
execute_example(kw) ==
    [success |-> TRUE,
     message |-> "Example job completed successfully",
     schedule_id |-> kw.schedule_id,
     job_run_id |-> kw.job_run_id,
     job_parameters |-> OrDefault(kw.job_parameters, {}),
     target_devices |-> OrDefault(kw.target_devices, <<>>)]

\* The job_executors table of execute_job_type.
job_executors == [example |-> "execute_example"]

\* A plausible slip: an unregistered type falls back to the example executor.
ExecutorWithDefault(job_type) ==
    IF job_type \in DOMAIN job_executors THEN Some(job_executors[job_type])
                                         ELSE Some("execute_example")

\* job_executors.get(job_type): the executor's name, or None.
ExecutorFor(job_type) ==
    IF job_type \in DOMAIN job_executors THEN Some(job_executors[job_type])
                                         ELSE NoneV

\* Calling the executor of that name.
RunExecutor(name, kw) == CASE name = "execute_example" -> execute_example(kw)

\* A plausible slip: the template is not handed on to the executor.
KwargsWithoutTemplate(kw) ==
    [schedule_id |-> kw.schedule_id, credential_id |-> kw.credential_id,
     job_parameters |-> kw.job_parameters,
     target_devices |-> kw.target_devices,
     template |-> NoneV, job_run_id |-> kw.job_run_id]

\* The keyword arguments of the executor call, each handed on by name.
ExecutorKwargs(kw) ==
    [schedule_id |-> kw.schedule_id, credential_id |-> kw.credential_id,
     job_parameters |-> kw.job_parameters,
     target_devices |-> kw.target_devices,
     template |-> kw.template, job_run_id |-> kw.job_run_id]

execute_job_type(job_type, kw) ==
    LET executor == ExecutorFor(job_type)
    IN  IF executor = NoneV
          THEN /\ dispLast' = [job_type |-> job_type, kw |-> kw,
                               result |-> [success |-> FALSE,
                                           error |-> "Unknown job type: " \o job_type]]
               /\ execCalls' = <<>>
          ELSE /\ dispLast' = [job_type |-> job_type, kw |-> kw,
                               result |-> RunExecutor(executor[1],
                                                      ExecutorKwargs(kw))]
               /\ execCalls' = <<[executor |-> executor[1],
                                  kw |-> ExecutorKwargs(kw)]>>

DispatchStep ==
    /\ \E jt \in JobTypes, kw \in DispatchArgs : execute_job_type(jt, kw)
    /\ UNCHANGED <<tplVars, taskVars, setVars, purgeVars, pqVars, ctlVars,
                   appVars>>

InitDispatch ==
    /\ dispLast = [job_type |-> "none", kw |-> NoneV, result |-> NoneV]
    /\ execCalls = <<>>

NextDispatch == DispatchStep

----------------------------------------------------------------------------
(* Task status and cancellation (routers/jobs/celery_api.py)               *)
(* The broker, the result backend and the workers are the environment: a   *)
(* submitted task waits in the broker, a worker takes it, runs it and      *)
(* records states in the backend; a revoke is a broadcast the workers      *)
(* receive some time after cancel_task sent it.                            *)

TaskIds == {"t1", "t2"}

\* The states of the docstring of get_task_status.
TaskStates ==
    {"PENDING", "STARTED", "PROGRESS", "SUCCESS", "FAILURE", "RETRY", "REVOKED"}

Finished == {"SUCCESS", "FAILURE", "REVOKED"}

\* AsyncResult(task_id).state: the recorded state, PENDING without a record.
AsyncResultState(be, task_id) ==
    IF task_id \in DOMAIN be THEN be[task_id] ELSE "PENDING"

Store(be, task_id, state) ==
    [t \in DOMAIN be \cup {task_id} |-> IF t = task_id THEN state ELSE be[t]]

Forget(be, task_id) == [t \in DOMAIN be \ {task_id} |-> be[t]]

\* A plausible slip: PENDING is reported with the "queued" of the submit
\* responses.
StatusQueued(state) == IF state = "PENDING" THEN "queued" ELSE state

\* TaskStatusResponse(status=result.state): the state is passed through.
StatusOf(state) == state

\* Which optional field of the response get_task_status fills in.
FilledField(state) ==
    CASE state = "PENDING" -> "progress"
      [] state = "PROGRESS" -> "progress"
      [] state = "SUCCESS" -> "result"
      [] state = "FAILURE" -> "error"
      [] OTHER -> "none"

\* A plausible slip: cancel_task also records REVOKED in the backend.
RevokeMarksBackend(be, task_id) == Store(be, task_id, "REVOKED")

\* result.revoke(terminate=True): a control broadcast; the backend is not
\* written.
RevokeBackend(be, task_id) == be

TaskCall(op, task_id, status, before, known, filled) ==
    [op |-> op, task_id |-> task_id, status |-> status, before |-> before,
     known |-> known, filled |-> filled]

submit_test_task(t) ==
    /\ t \notin submitted
    /\ submitted' = submitted \cup {t}
    /\ brokerQueue' = brokerQueue \cup {t}
    /\ taskLast' = TaskCall("submit", t, "queued", "none", FALSE, "none")
    /\ UNCHANGED <<backend, running, revokeSent, workerRevoked, cancelledPending>>

get_task_status(t) ==
    LET state == AsyncResultState(backend, t)
    IN  /\ taskLast' = TaskCall("status", t, StatusOf(state), state,
                                t \in DOMAIN backend, FilledField(state))
        /\ UNCHANGED <<submitted, brokerQueue, backend, running, revokeSent,
                       workerRevoked, cancelledPending>>

cancel_task(t) ==
    LET before == AsyncResultState(backend, t)
    IN  /\ revokeSent' = revokeSent \cup {t}
        /\ backend' = RevokeBackend(backend, t)
        /\ cancelledPending' = IF before = "PENDING" /\ t \in brokerQueue
                                 THEN cancelledPending \cup {t}
                                 ELSE cancelledPending
        /\ taskLast' = TaskCall("cancel", t, AsyncResultState(backend', t),
                                before, t \in DOMAIN backend, "none")
        /\ UNCHANGED <<submitted, brokerQueue, running, workerRevoked>>

\* A worker takes the message: a revoked id is discarded and recorded
\* REVOKED, any other task starts (STARTED is recorded when task_track_started
\* is on).
WorkerTake(t, track) ==
    /\ t \in brokerQueue
    /\ brokerQueue' = brokerQueue \ {t}
    /\ IF t \in workerRevoked
         THEN /\ backend' = Store(backend, t, "REVOKED")
              /\ UNCHANGED running
         ELSE /\ running' = running \cup {t}
              /\ backend' = IF track THEN Store(backend, t, "STARTED") ELSE backend
    /\ UNCHANGED <<submitted, revokeSent, workerRevoked, cancelledPending, taskLast>>

WorkerProgress(t) ==
    /\ t \in running
    /\ backend' = Store(backend, t, "PROGRESS")
    /\ UNCHANGED <<submitted, brokerQueue, running, revokeSent, workerRevoked,
                   cancelledPending, taskLast>>

WorkerFinish(t, state) ==
    /\ t \in running
    /\ running' = running \ {t}
    /\ backend' = Store(backend, t, state)
    /\ brokerQueue' = IF state = "RETRY" THEN brokerQueue \cup {t} ELSE brokerQueue
    /\ UNCHANGED <<submitted, revokeSent, workerRevoked, cancelledPending, taskLast>>

\* The workers receive the revoke; with terminate=True a running task is
\* killed and recorded REVOKED, unless it is past the point where it can be
\* interrupted.
DeliverRevoke(t, stopped) ==
    /\ t \in revokeSent
    /\ revokeSent' = revokeSent \ {t}
    /\ workerRevoked' = workerRevoked \cup {t}
    /\ IF t \in running /\ stopped
         THEN /\ running' = running \ {t}
              /\ backend' = Store(backend, t, "REVOKED")
         ELSE UNCHANGED <<running, backend>>
    /\ UNCHANGED <<submitted, brokerQueue, cancelledPending, taskLast>>

\* The record of a finished task expires from the backend.
ExpireResult(t) ==
    /\ t \in DOMAIN backend
    /\ backend[t] \in Finished
    /\ backend' = Forget(backend, t)
    /\ UNCHANGED <<submitted, brokerQueue, running, revokeSent, workerRevoked,
                   cancelledPending, taskLast>>

SubmitStep ==
    /\ \E t \in TaskIds : submit_test_task(t)
    /\ UNCHANGED <<tplVars, dispVars, setVars, purgeVars, pqVars, ctlVars,
                   appVars>>

StatusStep ==
    /\ \E t \in TaskIds : get_task_status(t)
    /\ UNCHANGED <<tplVars, dispVars, setVars, purgeVars, pqVars, ctlVars,
                   appVars>>

CancelStep ==
    /\ \E t \in TaskIds : cancel_task(t)
    /\ UNCHANGED <<tplVars, dispVars, setVars, purgeVars, pqVars, ctlVars,
                   appVars>>

WorkerTakeStep ==
    /\ \E t \in TaskIds, track \in BOOLEAN : WorkerTake(t, track)
    /\ UNCHANGED <<tplVars, dispVars, setVars, purgeVars, pqVars, ctlVars,
                   appVars>>

WorkerProgressStep ==
    /\ \E t \in TaskIds : WorkerProgress(t)
    /\ UNCHANGED <<tplVars, dispVars, setVars, purgeVars, pqVars, ctlVars,
                   appVars>>

WorkerFinishStep ==
    /\ \E t \in TaskIds, s \in {"SUCCESS", "FAILURE", "RETRY"} : WorkerFinish(t, s)
    /\ UNCHANGED <<tplVars, dispVars, setVars, purgeVars, pqVars, ctlVars,
                   appVars>>

DeliverRevokeStep ==
    /\ \E t \in TaskIds, stopped \in BOOLEAN : DeliverRevoke(t, stopped)
    /\ UNCHANGED <<tplVars, dispVars, setVars, purgeVars, pqVars, ctlVars,
                   appVars>>

ExpireResultStep ==
    /\ \E t \in TaskIds : ExpireResult(t)
    /\ UNCHANGED <<tplVars, dispVars, setVars, purgeVars, pqVars, ctlVars,
                   appVars>>

InitTasks ==
    /\ submitted = {}
    /\ brokerQueue = {}
    /\ backend = <<>>
    /\ running = {}
    /\ revokeSent = {}
    /\ workerRevoked = {}
    /\ cancelledPending = {}
    /\ taskLast = TaskCall("none", "none", "none", "none", FALSE, "none")

NextTasks ==
    \/ SubmitStep \/ StatusStep \/ CancelStep
    \/ WorkerTakeStep \/ WorkerProgressStep \/ WorkerFinishStep
    \/ DeliverRevokeStep \/ ExpireResultStep

----------------------------------------------------------------------------
(* Celery settings (routers/jobs/celery_settings.py)                       *)
(* A settings value is Some(v), or NoneV for an explicit null; a queue     *)
(* list is the set of its queue dicts, a queue dict a record whose         *)
(* built_in key is missing when the caller did not set it.                 *)

built_in_queue_names == {"default", "backup", "network", "heavy"}

CustomNames == {"custom1"}

Flags == {"unset", "true", "false"}

\* CeleryQueue.model_dump(exclude_unset=True) for a queue of the request.
QueueDict(name, flag) ==
    IF flag = "unset" THEN [name |-> name]
                      ELSE [name |-> name, built_in |-> (flag = "true")]

\* The queue lists a request can carry: any built-in queues (sent with one
\* built_in flag) and any custom queues (each with its own flag).
RequestQueueLists ==
    { {QueueDict(n, fb) : n \in B} \cup {QueueDict(n, fc[n]) : n \in C} :
        B \in SUBSET built_in_queue_names, fb \in Flags,
        C \in SUBSET CustomNames, fc \in [CustomNames -> Flags] }

SettingsKeys == {"max_workers", "cleanup_enabled", "queues"}

\* request.model_dump(exclude_unset=True): the fields the request sets.
RequestUpdates ==
    UNION { { [k \in D |-> CASE k = "max_workers" -> Some(8)
                             [] k = "cleanup_enabled" -> Some(FALSE)
                             [] k = "queues" -> q] :
                q \in {NoneV} \cup {Some(qs) : qs \in RequestQueueLists} } :
            D \in SUBSET SettingsKeys }

updated_queue_names(queues) == {q.name : q \in queues}

\* A plausible slip: the set difference the wrong way round.
MissingReversed(queues) == updated_queue_names(queues) \ built_in_queue_names

\* missing_built_ins = built_in_queue_names - updated_queue_names
missing_built_ins(queues) == built_in_queue_names \ updated_queue_names(queues)

\* The loop that fixes the built_in flag of every queue of the request.
MarkBuiltIn(queues) ==
    { IF q.name \in built_in_queue_names
        THEN [name |-> q.name, built_in |-> TRUE]
        ELSE IF "built_in" \notin DOMAIN q
               THEN [name |-> q.name, built_in |-> FALSE]
               ELSE q : q \in queues }

\* A plausible slip: the queues of the request are added to the stored ones.
MergeAddingQueues(current, updates) ==
    [k \in DOMAIN current \cup DOMAIN updates |->
        IF k \notin DOMAIN updates THEN current[k]
        ELSE IF k = "queues" /\ k \in DOMAIN current
               THEN Some(current[k][1] \cup updates[k][1])
               ELSE updates[k]]

\* A plausible slip: a scalar field the request leaves unset is stored as
\* null, as a dump without exclude_unset would have it.
MergeResetting(current, updates) ==
    [k \in DOMAIN current \cup DOMAIN updates |->
        IF k \in DOMAIN updates THEN updates[k]
        ELSE IF k = "queues" THEN current[k] ELSE NoneV]

\* merged = {**current, **updates}
Merge(current, updates) ==
    [k \in DOMAIN current \cup DOMAIN updates |->
        IF k \in DOMAIN updates THEN updates[k] ELSE current[k]]

StoredNames(settings) == updated_queue_names(settings.queues[1])

SetCall(outcome, missing, hasQueues, names, before, storeOk, fields) ==
    [outcome |-> outcome, missing |-> missing, hasQueues |-> hasQueues,
     names |-> names, before |-> before, storeOk |-> storeOk,
     fields |-> fields]

\* update_celery_settings; storeOk is what settings_manager's
\* update_celery_settings(merged) returns.
update_celery_settings(updates, storeOk) ==
    LET current == celerySettings
        before == StoredNames(current)
        hasQueues == "queues" \in DOMAIN updates
    IN  IF hasQueues /\ updates.queues = NoneV
          THEN \* iterating None raises; the error handler turns it into a 500
               /\ setLast' = SetCall("500", {}, FALSE, {}, before, storeOk,
                                       DOMAIN updates)
               /\ UNCHANGED celerySettings
          ELSE IF hasQueues /\ missing_built_ins(updates.queues[1]) # {}
            THEN /\ setLast' = SetCall("400", missing_built_ins(updates.queues[1]),
                                       TRUE, updated_queue_names(updates.queues[1]),
                                       before, storeOk, DOMAIN updates)
                 /\ UNCHANGED celerySettings
            ELSE LET fixed == IF hasQueues
                                THEN [updates EXCEPT
                                        !.queues = Some(MarkBuiltIn(updates.queues[1]))]
                                ELSE updates
                     merged == Merge(current, fixed)
                     names == IF hasQueues
                                THEN updated_queue_names(updates.queues[1]) ELSE {}
                 IN  IF storeOk
                       THEN /\ celerySettings' = merged
                            /\ setLast' = SetCall("ok", {}, hasQueues, names,
                                                  before, storeOk,
                                                  DOMAIN updates)
                       ELSE /\ setLast' = SetCall("500", {}, hasQueues, names,
                                                  before, storeOk,
                                                  DOMAIN updates)
                            /\ UNCHANGED celerySettings

UpdateSettingsStep ==
    /\ \E updates \in RequestUpdates, storeOk \in BOOLEAN :
          update_celery_settings(updates, storeOk)
    /\ UNCHANGED <<tplVars, dispVars, taskVars, purgeVars, pqVars, ctlVars,
                   appVars>>

\* The settings after startup: ensure_builtin_queues has run.
InitSettings ==
    /\ celerySettings =
          [max_workers |-> Some(4), cleanup_enabled |-> Some(TRUE),
           queues |-> Some({[name |-> n, built_in |-> TRUE] :
                              n \in built_in_queue_names})]
    /\ setLast = SetCall("none", {}, FALSE, {}, {}, TRUE, {})

NextSettings == UpdateSettingsStep

----------------------------------------------------------------------------
(* Purging queues (routers/jobs/celery_status.py)                          *)
(* The broker is shared with producers and workers, which add and take     *)
(* messages between the broker calls of a purge; one broker purge call     *)
(* drains one queue and returns the number of messages it removed.         *)

\* Largest number of configured queues.
MaxQueues == 2

\* Largest number of messages waiting in one queue.
MaxPending == 2

QueueOrder == <<"default", "backup", "network", "heavy", "custom1", "custom2">>

QueueNamesOf(tq) == {tq[i] : i \in 1..Len(tq)}

\* The result recorded for a queue whose purge returned purged_count.
SuccessEntry(queue_name, purged_count) ==
    [queue |-> queue_name, purged_tasks |-> purged_count]

\* The result recorded for a queue whose purge raised.
ErrorEntry(queue_name) ==
    [queue |-> queue_name, purged_tasks |-> 0, error |-> "error"]

\* A plausible slip: the first failure ends the loop.
BreakAfterError(idx, n) == n + 1

\* The except clause sits inside the for loop: the loop goes on with the
\* next queue.
AfterError(idx, n) == idx + 1

\* The with statement acquired a broker connection: the loop starts.
PurgeAllBegin ==
    /\ purgePc \in {"idle", "done", "failed"}
    /\ purgePc' = "loop"
    /\ purgeIdx' = 1
    /\ purged_queues' = <<>>
    /\ total_purged' = 0
    /\ purgeTrace' = <<>>
    /\ UNCHANGED <<task_queues, pending>>

\* No broker connection: the outer handler answers with a 500.
PurgeAllNoConnection ==
    /\ purgePc \in {"idle", "done", "failed"}
    /\ purgePc' = "failed"
    /\ purgeIdx' = 1
    /\ purged_queues' = <<>>
    /\ total_purged' = 0
    /\ purgeTrace' = <<>>
    /\ UNCHANGED <<task_queues, pending>>

\* One turn of the loop: the purge of task_queues[purgeIdx] returns its
\* count, or raises.
PurgeAllQueue(raises) ==
    /\ purgePc = "loop"
    /\ purgeIdx <= Len(task_queues)
    /\ LET queue_name == task_queues[purgeIdx]
           purged_count == pending[queue_name]
       IN  IF raises
             THEN /\ purged_queues' = Append(purged_queues, ErrorEntry(queue_name))
                  /\ purgeIdx' = AfterError(purgeIdx, Len(task_queues))
                  /\ purgeTrace' = Append(purgeTrace,
                        [depth |-> pending[queue_name], drained |-> 0,
                         raised |-> TRUE])
                  /\ UNCHANGED <<pending, total_purged>>
             ELSE /\ pending' = [pending EXCEPT ![queue_name] = 0]
                  /\ purged_queues' = Append(purged_queues,
                        SuccessEntry(queue_name, purged_count))
                  /\ total_purged' = total_purged + purged_count
                  /\ purgeIdx' = purgeIdx + 1
                  /\ purgeTrace' = Append(purgeTrace,
                        [depth |-> pending[queue_name],
                         drained |-> pending[queue_name] - pending'[queue_name],
                         raised |-> FALSE])
    /\ UNCHANGED <<task_queues, purgePc>>

\* The loop is over: the response carries total_purged and purged_queues.
PurgeAllReturn ==
    /\ purgePc = "loop"
    /\ purgeIdx > Len(task_queues)
    /\ purgePc' = "done"
    /\ UNCHANGED <<task_queues, pending, purgeIdx, purged_queues, total_purged,
                   purgeTrace>>

\* A producer sends a task to a queue.
Enqueue(q) ==
    /\ pending[q] < MaxPending
    /\ pending' = [pending EXCEPT ![q] = @ + 1]
    /\ UNCHANGED <<task_queues, purgePc, purgeIdx, purged_queues, total_purged,
                   purgeTrace>>

\* A worker takes a task from a queue.
Consume(q) ==
    /\ pending[q] > 0
    /\ pending' = [pending EXCEPT ![q] = @ - 1]
    /\ UNCHANGED <<task_queues, purgePc, purgeIdx, purged_queues, total_purged,
                   purgeTrace>>

PurgeAllBeginStep ==
    /\ PurgeAllBegin
    /\ UNCHANGED <<tplVars, dispVars, taskVars, setVars, pqVars, ctlVars,
                   appVars>>

PurgeAllNoConnectionStep ==
    /\ PurgeAllNoConnection
    /\ UNCHANGED <<tplVars, dispVars, taskVars, setVars, pqVars, ctlVars,
                   appVars>>

PurgeAllQueueStep ==
    /\ \E raises \in BOOLEAN : PurgeAllQueue(raises)
    /\ UNCHANGED <<tplVars, dispVars, taskVars, setVars, pqVars, ctlVars,
                   appVars>>

PurgeAllReturnStep ==
    /\ PurgeAllReturn
    /\ UNCHANGED <<tplVars, dispVars, taskVars, setVars, pqVars, ctlVars,
                   appVars>>

EnqueueStep ==
    /\ \E q \in QueueNamesOf(task_queues) : Enqueue(q)
    /\ UNCHANGED <<tplVars, dispVars, taskVars, setVars, pqVars, ctlVars,
                   appVars>>

ConsumeStep ==
    /\ \E q \in QueueNamesOf(task_queues) : Consume(q)
    /\ UNCHANGED <<tplVars, dispVars, taskVars, setVars, pqVars, ctlVars,
                   appVars>>

\* The queue table is static configuration; every queue starts empty.
InitPurge ==
    /\ task_queues = SubSeq(QueueOrder, 1, MaxQueues)
    /\ pending = [q \in QueueNamesOf(task_queues) |-> 0]
    /\ purgePc = "idle"
    /\ purgeIdx = 1
    /\ purged_queues = <<>>
    /\ total_purged = 0
    /\ purgeTrace = <<>>

\* The same, for any number of configured queues up to MaxQueues.
InitPurgeAnySize ==
    /\ task_queues \in {SubSeq(QueueOrder, 1, n) : n \in 0..MaxQueues}
    /\ pending = [q \in QueueNamesOf(task_queues) |-> 0]
    /\ purgePc = "idle"
    /\ purgeIdx = 1
    /\ purged_queues = <<>>
    /\ total_purged = 0
    /\ purgeTrace = <<>>

NextPurge ==
    \/ PurgeAllBeginStep \/ PurgeAllNoConnectionStep \/ PurgeAllQueueStep
    \/ PurgeAllReturnStep \/ EnqueueStep \/ ConsumeStep

----------------------------------------------------------------------------
(* Purge of one queue (routers/jobs/celery_status.py, purge_queue)         *)
(*                                                                         *)
(* The call looks the name up in the configured queues, then makes one     *)
(* broker purge call on the queue and returns the count that call gave.    *)
(* Producers and workers act on the broker between the two.                *)

\* The names a caller may pass: the queues that can be configured, and one
\* that never is.
PurgeNames == {QueueOrder[i] : i \in 1..MaxQueues} \cup {"custom2"}

NoResponse == [status |-> 0]

\* A plausible slip: an unknown queue is answered like an empty one.
NotFoundAsEmpty(queue_name) ==
    [status |-> 200, success |-> TRUE, queue |-> queue_name, purged_tasks |-> 0]

\* HTTPException(404, "Queue '<name>' not found").
NotFound(queue_name) ==
    [status |-> 404, detail |-> "Queue '" \o queue_name \o "' not found"]

\* HTTPException(500, "Failed to purge queue: <error>").
PurgeFailed == [status |-> 500, detail |-> "Failed to purge queue: error"]

\* "purged_count or 0".
OrZero(purged_count) == IF purged_count = 0 THEN 0 ELSE purged_count

\* The body returned by a purge that went through.
PurgeOk(queue_name, purged_count) ==
    [status |-> 200, success |-> TRUE, queue |-> queue_name,
     purged_tasks |-> OrZero(purged_count)]

\* A plausible slip: the purge empties every queue of the broker.
DrainEveryQueue(p, queue_name) == [q \in DOMAIN p |-> 0]

\* queue_obj(conn.channel()).purge(): the broker empties that one queue.
DrainQueue(p, queue_name) == [p EXCEPT ![queue_name] = 0]

\* A plausible slip: count first, delete afterwards, report the count.
CountBeforePurge(depth_at_entry, drained) == depth_at_entry

\* purged_count is what the broker's purge call returned: the number of
\* messages that call removed.
PurgedCount(depth_at_entry, drained) == drained

\* The call enters: an unknown name is answered with 404 at once, a
\* configured one goes on to the broker. seq tells one call from the next.
PurgeQueueBegin(queue_name) ==
    /\ purgeCall.pc # "purge"
    /\ IF queue_name \notin QueueNamesOf(task_queues)
         THEN purgeCall' = [pc |-> "done", seq |-> 1 - purgeCall.seq,
                            queue_name |-> queue_name, seen |-> 0,
                            removed |-> 0, response |-> NotFound(queue_name),
                            prev |-> purgeCall.response]
         ELSE purgeCall' = [pc |-> "purge", seq |-> 1 - purgeCall.seq,
                            queue_name |-> queue_name,
                            seen |-> pending[queue_name], removed |-> 0,
                            response |-> NoResponse,
                            prev |-> purgeCall.response]
    /\ UNCHANGED purgeVars

\* The broker purge call: it raises (no connection, broker error) and the
\* call answers 500, or it drains the queue and the call returns its count.
PurgeQueueDrain(raises) ==
    /\ purgeCall.pc = "purge"
    /\ LET queue_name == purgeCall.queue_name
       IN  IF raises
             THEN /\ purgeCall' = [purgeCall EXCEPT !.pc = "done",
                                                    !.response = PurgeFailed]
                  /\ UNCHANGED pending
             ELSE /\ pending' = DrainQueue(pending, queue_name)
                  /\ purgeCall' =
                        [purgeCall EXCEPT
                            !.pc = "done",
                            !.removed = pending[queue_name] - pending'[queue_name],
                            !.response =
                                PurgeOk(queue_name,
                                        PurgedCount(purgeCall.seen,
                                            pending[queue_name]
                                              - pending'[queue_name]))]
    /\ UNCHANGED <<task_queues, purgePc, purgeIdx, purged_queues, total_purged,
                   purgeTrace>>

PurgeQueueBeginStep ==
    /\ \E queue_name \in PurgeNames : PurgeQueueBegin(queue_name)
    /\ UNCHANGED <<tplVars, dispVars, taskVars, setVars, ctlVars,
                   appVars>>

PurgeQueueDrainStep ==
    /\ \E raises \in BOOLEAN : PurgeQueueDrain(raises)
    /\ UNCHANGED <<tplVars, dispVars, taskVars, setVars, ctlVars,
                   appVars>>

InitPurgeQueue ==
    purgeCall = [pc |-> "idle", seq |-> 0, queue_name |-> "", seen |-> 0,
                 removed |-> 0, response |-> NoResponse, prev |-> NoResponse]

NextPurgeQueue ==
    \/ PurgeQueueBeginStep \/ PurgeQueueDrainStep
    \/ EnqueueStep \/ ConsumeStep

----------------------------------------------------------------------------
(* Control plane reads (routers/jobs/celery_status.py) and cleanup stats   *)
(* (routers/jobs/celery_cleanup.py)                                        *)
(*                                                                         *)
(* The worker fleet, Redis and the process environment are the world the   *)
(* reads look at. ctlLast holds the call in progress or the answer of the  *)
(* call just made; a change of that world clears an answer, so an answer   *)
(* that is present was computed from the state it is found in.             *)
(*                                                                         *)
(* A reply of inspect is a function from worker names; None (no worker     *)
(* replied) is the empty function, every use of a reply being "x or {}"    *)
(* or "if x:". A worker's task list is its length, its queue list the set  *)
(* of queue names.                                                         *)

\* Largest number of tasks a worker runs at once.
MaxActive == 1

\* Last hour of the clock.
MaxClock == 2

Workers == {"w1", "w2"}

BrokerModes == {"up", "down", "silent"}

beat_lock_key == "cockpit-ng:beat::lock"

beat_schedule_key == "cockpit-ng:beat::schedule"

BeatKeyNames == {beat_lock_key, beat_schedule_key}

ResultIds == {"celery-task-meta-1", "celery-task-meta-2", "celery-task-meta-3"}

Retentions == {NoneV, Some(1), Some(48)}

EmptyFleet == [w \in {} |-> [queues |-> {}, active |-> 0]]

\* The fleets of at most one worker over the queues qs.
SmallFleets(qs) ==
    {EmptyFleet} \cup
    { [x \in {w} |-> [queues |-> s, active |-> a]] :
        w \in Workers, s \in SUBSET qs, a \in 0..MaxActive }

CtlIdle ==
    [op |-> "none", pc |-> "done", failed |-> {},
     locals |-> [worker_count |-> 0, task_count |-> 0, redis_connected |-> FALSE],
     response |-> [none |-> TRUE]]

\* A finished call: what it was, which of its steps failed, what it answered.
CtlAnswer(op, failed, response) ==
    [CtlIdle EXCEPT !.op = op, !.failed = failed, !.response = response]

\* The world changed: an answer computed before it is no longer held.
ForgetAnswer == ctlLast' = IF ctlLast.pc = "done" THEN CtlIdle ELSE ctlLast

\* A worker comes up consuming the queues qs.
WorkerJoin(w, qs) ==
    /\ w \notin DOMAIN fleet
    /\ fleet' = [x \in DOMAIN fleet \cup {w} |->
                    IF x = w THEN [queues |-> qs, active |-> 0] ELSE fleet[x]]

\* A worker goes away.
WorkerLeave(w) ==
    /\ w \in DOMAIN fleet
    /\ fleet' = [x \in DOMAIN fleet \ {w} |-> fleet[x]]

\* A worker starts a task.
TaskStart(w) ==
    /\ w \in DOMAIN fleet
    /\ fleet[w].active < MaxActive
    /\ fleet' = [fleet EXCEPT ![w].active = @ + 1]

\* A worker ends a task.
TaskEnd(w) ==
    /\ w \in DOMAIN fleet
    /\ fleet[w].active > 0
    /\ fleet' = [fleet EXCEPT ![w].active = @ - 1]

FleetStep ==
    /\ \E w \in Workers :
          \/ \E qs \in SUBSET QueueNamesOf(task_queues) : WorkerJoin(w, qs)
          \/ WorkerLeave(w)
          \/ TaskStart(w)
          \/ TaskEnd(w)
    /\ ForgetAnswer
    /\ UNCHANGED <<brokerMode, beatKeys, environ, resultKeys, clock,
                   cleanup_age_hours>>
    /\ UNCHANGED <<tplVars, dispVars, taskVars, setVars, purgeVars, pqVars,
                   appVars>>

\* Redis goes up, goes down, or stops answering.
BrokerChange(mode) ==
    /\ mode # brokerMode
    /\ brokerMode' = mode

BrokerChangeStep ==
    /\ \E mode \in BrokerModes : BrokerChange(mode)
    /\ ForgetAnswer
    /\ UNCHANGED <<fleet, beatKeys, environ, resultKeys, clock,
                   cleanup_age_hours>>
    /\ UNCHANGED <<tplVars, dispVars, taskVars, setVars, purgeVars, pqVars,
                   appVars>>

\* Beat writes one of its keys, or the key expires.
BeatKeyChange(key) ==
    beatKeys' = IF key \in beatKeys THEN beatKeys \ {key}
                                    ELSE beatKeys \cup {key}

BeatKeyStep ==
    /\ \E key \in BeatKeyNames : BeatKeyChange(key)
    /\ ForgetAnswer
    /\ UNCHANGED <<fleet, brokerMode, environ, resultKeys, clock,
                   cleanup_age_hours>>
    /\ UNCHANGED <<tplVars, dispVars, taskVars, setVars, purgeVars, pqVars,
                   appVars>>

\* The outcomes a Redis command or an inspect broadcast can have: "ok",
\* "raises". A command on a Redis that never answers does not return (the
\* client is built from the URL alone, without a socket timeout); an
\* inspect broadcast gives up waiting and returns without replies, or
\* raises.
RedisOutcomes(mode) ==
    CASE mode = "up" -> {"ok", "raises"}
      [] mode = "down" -> {"raises"}
      [] mode = "silent" -> {}

InspectOutcomes(mode) ==
    CASE mode = "up" -> {"ok", "raises"}
      [] mode = "down" -> {"raises"}
      [] mode = "silent" -> {"empty", "raises"}

\* What the workers reply to an inspect broadcast.
Replies(outcome, f) == IF outcome = "empty" THEN EmptyFleet ELSE f

\* handle_celery_errors(operation): what the wrapper answers when the
\* endpoint body raised.
ErrorEnvelope(operation) ==
    [success |-> FALSE, error |-> "error", operation |-> operation]

\* list_workers: four inspect broadcasts, the first that raises ends the
\* call in the wrapper.
list_workers(outs) ==
    /\ ctlLast.pc = "done"
    /\ IF \E i \in 1..4 : outs[i] = "raises"
         THEN ctlLast' = CtlAnswer("list_workers", {"inspect"},
                                   ErrorEnvelope("list workers"))
         ELSE ctlLast' = CtlAnswer("list_workers", {},
                [success |-> TRUE,
                 workers |->
                    [active_tasks |->
                        [w \in DOMAIN Replies(outs[1], fleet) |-> fleet[w].active],
                     stats |-> DOMAIN Replies(outs[2], fleet),
                     registered_tasks |-> DOMAIN Replies(outs[3], fleet),
                     active_queues |->
                        [w \in DOMAIN Replies(outs[4], fleet) |-> fleet[w].queues]]])

\* celery_app.conf.task_routes: task pattern -> queue.
task_routes ==
    [p \in {"tasks.backup.*", "tasks.default.*"} |->
        IF p = "tasks.backup.*" THEN "backup" ELSE "default"]

\* A plausible slip: the tasks of every worker are counted for every queue.
CountsAlways(worker_name, workers_consuming) == TRUE

\* "if worker_name in workers_consuming".
CountsFor(worker_name, workers_consuming) == worker_name \in workers_consuming

RECURSIVE ActiveCount(_, _, _)
\* active_count: len(tasks) added up over the workers of the active reply
\* that are in workers_consuming.
ActiveCount(active_tasks, names, workers_consuming) ==
    IF names = {} THEN 0
    ELSE LET w == CHOOSE x \in names : TRUE
         IN  (IF CountsFor(w, workers_consuming) THEN active_tasks[w].active
                                                 ELSE 0)
             + ActiveCount(active_tasks, names \ {w}, workers_consuming)

\* The entry list_queues builds for one configured queue.
QueueEntry(queue_name, active_queues, active_tasks, depth) ==
    LET workers_consuming ==
            {w \in DOMAIN active_queues : queue_name \in active_queues[w].queues}
    IN  [name |-> queue_name,
         pending_tasks |-> depth[queue_name],
         active_tasks |-> ActiveCount(active_tasks, DOMAIN active_tasks,
                                      workers_consuming),
         workers_consuming |-> workers_consuming,
         worker_count |-> Cardinality(workers_consuming),
         routed_tasks |-> {p \in DOMAIN task_routes : task_routes[p] = queue_name}]

\* A plausible slip: the failure is answered as an empty, successful list.
QueuesFailedAsEmpty == [success |-> TRUE, queues |-> <<>>, total_queues |-> 0]

\* The except clause of list_queues.
QueuesFailed == [success |-> FALSE, error |-> "error", queues |-> <<>>,
                 total_queues |-> 0]

\* list_queues: two inspect broadcasts outside the try, then one llen per
\* configured queue inside it.
list_queues(o_queues, o_active) ==
    /\ ctlLast.pc = "done"
    /\ IF "raises" \in {o_queues, o_active}
         THEN ctlLast' = CtlAnswer("list_queues", {"inspect"},
                                   ErrorEnvelope("list queues"))
         ELSE \E o_redis \in RedisOutcomes(brokerMode) :
                IF o_redis = "raises"
                  THEN ctlLast' = CtlAnswer("list_queues", {"redis"}, QueuesFailed)
                  ELSE LET queues ==
                               [k \in 1..Len(task_queues) |->
                                   QueueEntry(task_queues[k],
                                              Replies(o_queues, fleet),
                                              Replies(o_active, fleet), pending)]
                       IN  ctlLast' = CtlAnswer("list_queues", {},
                               [success |-> TRUE, queues |-> queues,
                                total_queues |-> Len(queues)])

\* list_schedules: the configured beat schedule, no broker call.
list_schedules ==
    /\ ctlLast.pc = "done"
    /\ ctlLast' = CtlAnswer("list_schedules", {},
                            [success |-> TRUE, schedules |-> environ.beat_schedule])

\* r.exists(key): 1 if the key is there, else 0.
Exists(keys, key) == IF key \in keys THEN 1 ELSE 0

\* A plausible slip: only the lock key is looked at.
LockOnly(lock_exists, schedule_exists) == lock_exists # 0

\* "bool(lock_exists or schedule_exists)".
BeatRunning(lock_exists, schedule_exists) ==
    (IF lock_exists # 0 THEN lock_exists ELSE schedule_exists) # 0

\* beat_status: two exists commands; one that raises ends the call in the
\* wrapper.
beat_status(o_lock, o_schedule) ==
    /\ ctlLast.pc = "done"
    /\ IF "raises" \in {o_lock, o_schedule}
         THEN ctlLast' = CtlAnswer("beat_status", {"redis"},
                                   ErrorEnvelope("get beat status"))
         ELSE LET beat_running ==
                      BeatRunning(Exists(beatKeys, beat_lock_key),
                                  Exists(beatKeys, beat_schedule_key))
              IN  ctlLast' = CtlAnswer("beat_status", {},
                      [success |-> TRUE, beat_running |-> beat_running,
                       message |-> IF beat_running THEN "Beat is running"
                                                   ELSE "Beat not detected"])

\* A plausible slip: the probe's failure is not recorded.
ConnectedAlways(outcome) == TRUE

\* redis_connected: True after r.ping() returned, False in the except.
ConnectedAfterPing(outcome) == outcome = "ok"

\* celery_status, first part: the two inspect broadcasts, outside any try;
\* worker_count and task_count are computed from the replies.
StatusInspect(o_stats, o_active) ==
    /\ ctlLast.pc = "done"
    /\ IF "raises" \in {o_stats, o_active}
         THEN ctlLast' = CtlAnswer("celery_status", {"inspect"},
                                   ErrorEnvelope("get celery status"))
         ELSE LET stats == Replies(o_stats, fleet)
                  active == Replies(o_active, fleet)
              IN  ctlLast' =
                    [op |-> "celery_status", pc |-> "ping", failed |-> {},
                     locals |->
                        [worker_count |-> Cardinality(DOMAIN stats),
                         task_count |-> ActiveCount(active, DOMAIN active,
                                                    DOMAIN active),
                         redis_connected |-> FALSE],
                     response |-> [none |-> TRUE]]

\* celery_status, the connectivity probe: r.ping() inside try/except. No
\* step exists while Redis does not answer: the command has no timeout.
StatusPing(outcome) ==
    /\ ctlLast.op = "celery_status"
    /\ ctlLast.pc = "ping"
    /\ outcome \in RedisOutcomes(brokerMode)
    /\ ctlLast' = [ctlLast EXCEPT
                      !.pc = "beat",
                      !.failed = IF outcome = "raises" THEN @ \cup {"ping"} ELSE @,
                      !.locals.redis_connected = ConnectedAfterPing(outcome)]

\* celery_status, the beat probe and the return: r.exists(lock key) inside
\* try/except.
StatusBeat(outcome) ==
    /\ ctlLast.op = "celery_status"
    /\ ctlLast.pc = "beat"
    /\ outcome \in RedisOutcomes(brokerMode)
    /\ LET beat_running ==
               IF outcome = "ok" THEN Exists(beatKeys, beat_lock_key) # 0
                                 ELSE FALSE
       IN  ctlLast' =
             [ctlLast EXCEPT
                !.pc = "done",
                !.failed = IF outcome = "raises" THEN @ \cup {"beat"} ELSE @,
                !.response =
                    [success |-> TRUE,
                     status |->
                        [redis_connected |-> ctlLast.locals.redis_connected,
                         worker_count |-> ctlLast.locals.worker_count,
                         active_tasks |-> ctlLast.locals.task_count,
                         beat_running |-> beat_running]]]

\* os.getenv(name, default); an unset variable is None.
Getenv(value, default) == IF value = None THEN default ELSE value

\* A plausible slip: the password is part of the Redis section.
RedisSectionWithPassword(redis_host, redis_port, redis_password) ==
    [host |-> redis_host, port |-> redis_port,
     has_password |-> redis_password # "", database |-> "0",
     password |-> redis_password]

\* The "redis" section of the configuration: has_password is
\* bool(redis_password).
RedisSection(redis_host, redis_port, redis_password) ==
    [host |-> redis_host, port |-> redis_port,
     has_password |-> redis_password # "", database |-> "0"]

\* The body get_celery_config returns in the environment env.
ConfigResponse(env) ==
    [success |-> TRUE,
     config |->
        [redis |-> RedisSection(Getenv(env.COCKPIT_REDIS_HOST, "localhost"),
                                Getenv(env.COCKPIT_REDIS_PORT, "6379"),
                                Getenv(env.COCKPIT_REDIS_PASSWORD, "")),
         worker |-> [max_concurrency |-> env.celery_max_workers],
         beat |-> [schedule_count |-> Cardinality(env.beat_schedule)]]]

\* get_celery_config: reads the environment and the configuration only.
get_celery_config ==
    /\ ctlLast.pc = "done"
    /\ ctlLast' = CtlAnswer("get_celery_config", {}, ConfigResponse(environ))

\* celery_settings.get("cleanup_age_hours", 24).
RetentionHours(stored) == IF stored = NoneV THEN 24 ELSE stored[1]

\* datetime.isoformat(): the text of a time.
isoformat(t) == <<"iso", t>>

\* A plausible slip: the scan removes what it finds.
KeysAfterScanRemoved(keys) == {}

\* r.scan_iter("celery-task-meta-*") reads the keys and leaves them.
KeysAfterScan(keys) == keys

\* get_cleanup_stats: the retention setting, the cutoff, one scan of the
\* result keys; a scan that raises ends the call in the wrapper.
get_cleanup_stats(outcome) ==
    /\ ctlLast.pc = "done"
    /\ outcome \in RedisOutcomes(brokerMode)
    /\ LET hours == RetentionHours(cleanup_age_hours)
           cutoff_time == clock - hours
       IN  IF outcome = "raises"
             THEN /\ ctlLast' = CtlAnswer("get_cleanup_stats", {"redis"},
                                          ErrorEnvelope("get cleanup stats"))
                  /\ UNCHANGED resultKeys
             ELSE /\ resultKeys' = KeysAfterScan(resultKeys)
                  /\ ctlLast' = CtlAnswer("get_cleanup_stats", {},
                        [success |-> TRUE,
                         stats |->
                            [cleanup_age_hours |-> hours,
                             cutoff_time |-> isoformat(cutoff_time),
                             total_result_keys |-> Cardinality(resultKeys)]])

\* A task result is stored, or an old one is removed.
ResultChange(key) ==
    resultKeys' = IF key \in resultKeys THEN resultKeys \ {key}
                                        ELSE resultKeys \cup {key}

\* An hour passes.
Tick ==
    /\ clock < MaxClock
    /\ clock' = clock + 1

\* The retention setting is changed.
RetentionChange(stored) ==
    /\ stored # cleanup_age_hours
    /\ cleanup_age_hours' = stored

\* What a read endpoint leaves alone: everything but its own answer.
ctlWorld == <<fleet, brokerMode, beatKeys, environ, resultKeys, clock,
              cleanup_age_hours>>

ListWorkersStep ==
    /\ \E outs \in [1..4 -> InspectOutcomes(brokerMode)] : list_workers(outs)
    /\ UNCHANGED ctlWorld
    /\ UNCHANGED <<tplVars, dispVars, taskVars, setVars, purgeVars, pqVars,
                   appVars>>

ListQueuesStep ==
    /\ \E o_queues \in InspectOutcomes(brokerMode),
          o_active \in InspectOutcomes(brokerMode) :
            list_queues(o_queues, o_active)
    /\ UNCHANGED ctlWorld
    /\ UNCHANGED <<tplVars, dispVars, taskVars, setVars, purgeVars, pqVars,
                   appVars>>

ListSchedulesStep ==
    /\ list_schedules
    /\ UNCHANGED ctlWorld
    /\ UNCHANGED <<tplVars, dispVars, taskVars, setVars, purgeVars, pqVars,
                   appVars>>

BeatStatusStep ==
    /\ \E o_lock \in RedisOutcomes(brokerMode),
          o_schedule \in RedisOutcomes(brokerMode) :
            beat_status(o_lock, o_schedule)
    /\ UNCHANGED ctlWorld
    /\ UNCHANGED <<tplVars, dispVars, taskVars, setVars, purgeVars, pqVars,
                   appVars>>

StatusInspectStep ==
    /\ \E o_stats \in InspectOutcomes(brokerMode),
          o_active \in InspectOutcomes(brokerMode) :
            StatusInspect(o_stats, o_active)
    /\ UNCHANGED ctlWorld
    /\ UNCHANGED <<tplVars, dispVars, taskVars, setVars, purgeVars, pqVars,
                   appVars>>

StatusPingStep ==
    /\ \E outcome \in {"ok", "raises"} : StatusPing(outcome)
    /\ UNCHANGED ctlWorld
    /\ UNCHANGED <<tplVars, dispVars, taskVars, setVars, purgeVars, pqVars,
                   appVars>>

StatusBeatStep ==
    /\ \E outcome \in {"ok", "raises"} : StatusBeat(outcome)
    /\ UNCHANGED ctlWorld
    /\ UNCHANGED <<tplVars, dispVars, taskVars, setVars, purgeVars, pqVars,
                   appVars>>

GetCeleryConfigStep ==
    /\ get_celery_config
    /\ UNCHANGED ctlWorld
    /\ UNCHANGED <<tplVars, dispVars, taskVars, setVars, purgeVars, pqVars,
                   appVars>>

GetCleanupStatsStep ==
    /\ \E outcome \in {"ok", "raises"} : get_cleanup_stats(outcome)
    /\ UNCHANGED <<fleet, brokerMode, beatKeys, environ, clock,
                   cleanup_age_hours>>
    /\ UNCHANGED <<tplVars, dispVars, taskVars, setVars, purgeVars, pqVars,
                   appVars>>

ResultChangeStep ==
    /\ \E key \in ResultIds : ResultChange(key)
    /\ ForgetAnswer
    /\ UNCHANGED <<fleet, brokerMode, beatKeys, environ, clock,
                   cleanup_age_hours>>
    /\ UNCHANGED <<tplVars, dispVars, taskVars, setVars, purgeVars, pqVars,
                   appVars>>

TickStep ==
    /\ Tick
    /\ ForgetAnswer
    /\ UNCHANGED <<fleet, brokerMode, beatKeys, environ, resultKeys,
                   cleanup_age_hours>>
    /\ UNCHANGED <<tplVars, dispVars, taskVars, setVars, purgeVars, pqVars,
                   appVars>>

RetentionChangeStep ==
    /\ \E stored \in Retentions : RetentionChange(stored)
    /\ ForgetAnswer
    /\ UNCHANGED <<fleet, brokerMode, beatKeys, environ, resultKeys, clock>>
    /\ UNCHANGED <<tplVars, dispVars, taskVars, setVars, purgeVars, pqVars,
                   appVars>>

\* The environment of a deployment that sets nothing.
DefaultEnviron ==
    [COCKPIT_REDIS_HOST |-> None, COCKPIT_REDIS_PORT |-> None,
     COCKPIT_REDIS_PASSWORD |-> None, celery_max_workers |-> 4,
     beat_schedule |-> {"cleanup"}]

Passwords == {None, "", "s3cret", "hunter2"}

Environs ==
    [COCKPIT_REDIS_HOST : {None, "redis.local"},
     COCKPIT_REDIS_PORT : {None, "6380"},
     COCKPIT_REDIS_PASSWORD : Passwords,
     celery_max_workers : {2, 4},
     beat_schedule : SUBSET {"cleanup", "check"}]

\* No worker yet, Redis up and empty, nothing asked yet.
InitControl ==
    /\ fleet = EmptyFleet
    /\ brokerMode = "up"
    /\ beatKeys = {}
    /\ environ = DefaultEnviron
    /\ resultKeys = {}
    /\ clock = 0
    /\ cleanup_age_hours = NoneV
    /\ ctlLast = CtlIdle

\* The same with one of the small fleets already up.
InitControlSmallFleet ==
    /\ fleet \in SmallFleets(QueueNamesOf(task_queues))
    /\ brokerMode = "up"
    /\ beatKeys = {}
    /\ environ = DefaultEnviron
    /\ resultKeys = {}
    /\ clock = 0
    /\ cleanup_age_hours = NoneV
    /\ ctlLast = CtlIdle

\* The same in any of the environments.
InitControlAnyEnviron ==
    /\ fleet = EmptyFleet
    /\ brokerMode = "up"
    /\ beatKeys = {}
    /\ environ \in Environs
    /\ resultKeys = {}
    /\ clock = 0
    /\ cleanup_age_hours = NoneV
    /\ ctlLast = CtlIdle

\* The queues hold any number of waiting messages.
InitPurgeAnyDepth ==
    /\ task_queues = SubSeq(QueueOrder, 1, MaxQueues)
    /\ pending \in [QueueNamesOf(task_queues) -> 0..MaxPending]
    /\ purgePc = "idle"
    /\ purgeIdx = 1
    /\ purged_queues = <<>>
    /\ total_purged = 0
    /\ purgeTrace = <<>>

NextQueues ==
    \/ ListQueuesStep \/ FleetStep \/ BrokerChangeStep

NextControl ==
    \/ ListWorkersStep \/ ListQueuesStep \/ ListSchedulesStep
    \/ BeatStatusStep \/ StatusInspectStep \/ StatusPingStep
    \/ StatusBeatStep \/ GetCeleryConfigStep
    \/ BrokerChangeStep \/ BeatKeyStep

NextConfig ==
    \/ GetCeleryConfigStep \/ ListSchedulesStep

NextCleanup ==
    \/ GetCleanupStatsStep \/ ResultChangeStep \/ TickStep
    \/ RetentionChangeStep

----------------------------------------------------------------------------
(* Concurrent create_job_template calls (job_template_manager.py)          *)
(* A request is suspended at each datastore query: the name check and the  *)
(* insert of one create call are two round trips, each in a session of its *)
(* own, and another request can run between them.                          *)

Callers == {"c1", "c2"}

CreateIdle == [pc |-> "idle"]

CreateCall(pc, name, user_id, is_global, result) ==
    [pc |-> pc, name |-> name, user_id |-> user_id, is_global |-> is_global,
     result |-> result]

\* Lines 29-33: the name check; a taken name raises ValueError.
CreateCheck(c, name, user_id, is_global) ==
    /\ creating[c].pc = "idle"
    /\ creating' = [creating EXCEPT ![c] =
          IF check_name_exists(templates, name,
                               CreateScope(user_id, is_global), {})
            THEN CreateCall("done", name, user_id, is_global, "duplicate")
            ELSE CreateCall("checked", name, user_id, is_global, "none")]
    /\ UNCHANGED tplVars

\* Lines 35-38 over BaseRepository.create: the row is added and committed.
CreateInsert(c) ==
    /\ creating[c].pc = "checked"
    /\ nextId <= MaxTemplates
    /\ LET call == creating[c]
       IN  /\ templates' = RepoCreate(templates, nextId, call.name,
                                      call.is_global,
                                      CreateScope(call.user_id, call.is_global))
           /\ creating' = [creating EXCEPT ![c] =
                 CreateCall("done", call.name, call.user_id, call.is_global,
                            "created")]
    /\ nextId' = nextId + 1
    /\ UNCHANGED tplLast

CreateCheckStep ==
    /\ \E c \in Callers, n \in Names, u \in Users, g \in BOOLEAN :
          CreateCheck(c, n, u, g)
    /\ UNCHANGED <<dispVars, taskVars, setVars, purgeVars, pqVars, ctlVars,
                   cacheVars, startVars, importVars>>

CreateInsertStep ==
    /\ \E c \in Callers : CreateInsert(c)
    /\ UNCHANGED <<dispVars, taskVars, setVars, purgeVars, pqVars, ctlVars,
                   cacheVars, startVars, importVars>>

InitRace == creating = [c \in Callers |-> CreateIdle]

NextRace == CreateCheckStep \/ CreateInsertStep

----------------------------------------------------------------------------
(* Namespaced TTL cache (services.settings.cache behind                    *)
(* routers/settings/cache.py)                                              *)
(* A key is the sequence of its pieces, so that one key being a prefix of  *)
(* another is decided piece by piece as for the characters of a string:    *)
(* "repo:10:commits:main" is <<"repo:", "1", "0", ":", "commits:main">>.   *)

\* The last instant of the cache's clock.
MaxNow == 2

Namespaces == {<<"repo:", "1">>, <<"repo:", "1", "0">>, <<"repo:", "2">>}

\* The composite key "<namespace>:<rest>".
Key(ns, rest) == ns \o <<":">> \o <<rest>>

Rests == {"commits:main", "commits:dev"}

CacheKeys ==
    {Key(<<"repo:", "1">>, "commits:main"), Key(<<"repo:", "1">>, "commits:dev"),
     Key(<<"repo:", "1", "0">>, "commits:main"),
     Key(<<"repo:", "2">>, "commits:main")}

RoundTripKeys ==
    {Key(<<"repo:", "1">>, "commits:main"), Key(<<"repo:", "1">>, "commits:dev")}

CacheValues == {"v1", "v2"}

Ttls == {1, 2}

\* str.startswith
StartsWith(key, prefix) ==
    /\ Len(key) >= Len(prefix)
    /\ SubSeq(key, 1, Len(prefix)) = prefix

\* A plausible slip: the namespace is matched without its separator.
InNamespaceLoose(key, ns) == StartsWith(key, ns)

\* A key belongs to the namespace ns when it starts with ns + ":".
InNamespace(key, ns) == StartsWith(key, ns \o <<":">>)

\* get: an entry is logically absent once now > expires_at.
LogicallyAbsent(entry, t) == t > entry.expires_at

\* A plausible slip: the entry is reclaimed at its deadline already.
ReclaimableAtDeadline(entry, t) == entry.expires_at <= t

\* cleanup_expired removes the entries whose expires_at < now.
Reclaimable(entry, t) == entry.expires_at < t

CacheCall(op, arg, answer) == [op |-> op, arg |-> arg, answer |-> answer]

\* get(key) -> value | absent, as the cache c answers it at time t.
GetValue(c, t, key) ==
    IF key \in DOMAIN c /\ ~LogicallyAbsent(c[key], t)
      THEN Some(c[key].value) ELSE NoneV

WithEntry(c, key, entry) ==
    [k \in DOMAIN c \cup {key} |-> IF k = key THEN entry ELSE c[k]]

Without(c, keys) == [k \in DOMAIN c \ keys |-> c[k]]

\* set(key, value, ttl_seconds): expires_at = created_at + ttl_seconds.
CacheSet(key, value, ttl) ==
    /\ cache' = WithEntry(cache, key,
                          [value |-> value, expires_at |-> now + ttl])
    /\ cacheLast' = CacheCall("set", [key |-> key, value |-> value,
                                      ttl |-> ttl], NoneV)
    /\ UNCHANGED now

CacheGet(key) ==
    /\ cacheLast' = CacheCall("get", key, GetValue(cache, now, key))
    /\ UNCHANGED <<cache, now>>

\* clear_all() -> removed_count
clear_all == cache' = Without(cache, DOMAIN cache)

\* clear_namespace(ns) -> removed_count
clear_namespace(ns) ==
    LET gone == {k \in DOMAIN cache : InNamespace(k, ns)}
    IN  cache' = Without(cache, gone)

\* The JSON bodies of POST /api/cache/clear: none, {}, an empty namespace
\* or a namespace.
ClearPayloads ==
    {NoneV, Some([x \in {} |-> NoneV]), Some([namespace |-> <<>>])}
        \cup {Some([namespace |-> ns]) : ns \in Namespaces}

\* clear_cache: the namespace of the payload, None when there is none.
PayloadNamespace(payload) ==
    IF payload # NoneV /\ DOMAIN payload[1] # {}
      THEN payload[1].namespace ELSE <<>>

\* clear_cache (POST /api/cache/clear)
clear_cache(payload) ==
    LET namespace == PayloadNamespace(payload)
    IN  /\ IF namespace = <<>> THEN clear_all ELSE clear_namespace(namespace)
        /\ cacheLast' = CacheCall("clear", namespace,
                [success |-> TRUE,
                 cleared_count |-> Cardinality(DOMAIN cache)
                                     - Cardinality(DOMAIN cache')])
        /\ UNCHANGED now

\* cleanup_expired (POST /api/cache/cleanup)
cleanup_expired ==
    LET gone == {k \in DOMAIN cache : Reclaimable(cache[k], now)}
    IN  /\ cache' = Without(cache, gone)
        /\ cacheLast' = CacheCall("cleanup_expired", NoneV,
                [success |-> TRUE, removed_count |-> Cardinality(gone)])
        /\ UNCHANGED now

\* Time passes; an answer given before is no answer for the new instant.
CacheTick ==
    /\ now < MaxNow
    /\ now' = now + 1
    /\ cacheLast' = CacheCall("none", NoneV, NoneV)
    /\ UNCHANGED cache

cacheFrame ==
    UNCHANGED <<tplVars, dispVars, taskVars, setVars, purgeVars, pqVars,
                ctlVars, raceVars, startVars, importVars>>

\* Any value with any ttl, under the keys of one namespace.
CacheSetStep ==
    /\ \E k \in RoundTripKeys, v \in CacheValues, ttl \in Ttls :
          CacheSet(k, v, ttl)
    /\ cacheFrame

\* One value with one ttl, under any key of any namespace.
CacheFillStep ==
    /\ \E k \in CacheKeys : CacheSet(k, "v1", 1)
    /\ cacheFrame

CacheGetStep ==
    /\ \E k \in CacheKeys : CacheGet(k)
    /\ cacheFrame

ClearCacheStep ==
    /\ \E payload \in ClearPayloads : clear_cache(payload)
    /\ cacheFrame

CleanupExpiredStep ==
    /\ cleanup_expired
    /\ cacheFrame

CacheTickStep ==
    /\ CacheTick
    /\ cacheFrame

\* The cache of a fresh process is empty.
InitCache ==
    /\ cache = <<>>
    /\ now = 0
    /\ cacheLast = CacheCall("none", NoneV, NoneV)

NextCache ==
    \/ CacheSetStep \/ CacheGetStep \/ ClearCacheStep \/ CleanupExpiredStep
    \/ CacheTickStep

NextClear == CacheFillStep \/ CacheGetStep \/ ClearCacheStep

----------------------------------------------------------------------------
(* Application startup (main.py, lifespan)                                 *)
(* The lifespan runs its steps one after the other without suspending; a   *)
(* task it creates is put on the event loop's ready queue and runs once    *)
(* the lifespan has yielded. The server resumes, and starts to handle      *)
(* requests, through the same queue.                                       *)

StartupSteps ==
    <<"init_db", "builtin_queues", "ssh_keys", "admin_rbac", "next_runs",
      "cache_prefetch">>

\* The step after a step of the lifespan; after the last one it yields.
StepAfter(step) ==
    LET i == CHOOSE j \in 1..Len(StartupSteps) : StartupSteps[j] = step
    IN  IF i < Len(StartupSteps) THEN StartupSteps[i + 1] ELSE "yield"

SelectedIds == {NoneV, Some(<<"1", "0">>)}

Commits == <<"c1", "c2">>

\* The cache settings, settings_manager.get_selected_git_repository() and
\* the state of that repository: its active branch (None: detached HEAD)
\* and its commits (none: HEAD is not valid).
StartConfigs ==
    [enabled : BOOLEAN, prefetch_on_startup : BOOLEAN,
     prefetch_items : {NoneV, Some([git |-> TRUE]), Some([git |-> FALSE]),
                       Some([other |-> TRUE])},
     selected : SelectedIds, branch : {NoneV, Some("main")},
     commits : {<<>>, Commits}]

\* A plausible slip: every failed step ends the startup.
AbortsOnAnyFailure(step) == TRUE

\* Only the handler of init_db re-raises.
Aborts(step) == step = "init_db"

\* One of the first five steps: its try block and its except handler.
LifespanStep(fails) ==
    /\ startPc \in {StartupSteps[i] : i \in 1..5}
    /\ IF fails
         THEN /\ startLog' = startLog \cup {startPc}
              /\ startPc' = IF Aborts(startPc) THEN "aborted"
                                               ELSE StepAfter(startPc)
         ELSE /\ startPc' = StepAfter(startPc)
              /\ UNCHANGED startLog
    /\ UNCHANGED <<startCfg, loopReady, serving, firstRequest, cacheVars>>

\* prefetch_items = cache_cfg.get("prefetch_items") or {"git": True}
PrefetchItems(cfg) ==
    IF cfg.prefetch_items = NoneV THEN [git |-> TRUE] ELSE cfg.prefetch_items[1]

\* The loop over prefetch_items creates the git task when git is enabled.
GitPrefetchScheduled(cfg) ==
    /\ cfg.enabled
    /\ cfg.prefetch_on_startup
    /\ "git" \in DOMAIN PrefetchItems(cfg)
    /\ PrefetchItems(cfg).git

\* The cache prefetch step: fails when loading the settings raises.
CachePrefetchSetup(fails) ==
    /\ startPc = "cache_prefetch"
    /\ startPc' = StepAfter(startPc)
    /\ IF fails
         THEN /\ startLog' = startLog \cup {startPc}
              /\ UNCHANGED loopReady
         ELSE /\ loopReady' = IF GitPrefetchScheduled(startCfg)
                                THEN Append(loopReady, "prefetch")
                                ELSE loopReady
              /\ UNCHANGED startLog
    /\ UNCHANGED <<startCfg, serving, firstRequest, cacheVars>>

\* yield: startup is complete and the server's resumption is scheduled.
LifespanYield ==
    /\ startPc = "yield"
    /\ startPc' = "started"
    /\ loopReady' = Append(loopReady, "serve")
    /\ UNCHANGED <<startCfg, startLog, serving, firstRequest, cacheVars>>

\* cache_key = f"{repo_scope}:commits:{branch_name}"
CommitsKey(selected_id, branch_name) ==
    Key(<<"repo:">> \o selected_id, "commits:" \o branch_name)

\* prefetch_commits_once, which never suspends: it runs as one step.
prefetch_commits_once(fails) ==
    IF startCfg.selected = NoneV
      THEN UNCHANGED <<startLog, cacheVars>>
      ELSE IF fails
        THEN /\ startLog' = startLog \cup {"prefetch_task"}
             /\ UNCHANGED cacheVars
        ELSE IF startCfg.branch = NoneV \/ startCfg.commits = <<>>
          THEN UNCHANGED <<startLog, cacheVars>>
          ELSE /\ CacheSet(CommitsKey(startCfg.selected[1], startCfg.branch[1]),
                           startCfg.commits, 1)
               /\ UNCHANGED startLog

\* A plausible slip: the loop runs the task scheduled last.
LastReady(ready) == Len(ready)

\* The event loop runs its ready tasks in the order they were scheduled.
NextReady(ready) == 1

RemoveAt(seq, i) == SubSeq(seq, 1, i - 1) \o SubSeq(seq, i + 1, Len(seq))

\* One turn of the event loop once the lifespan has yielded.
LoopRun ==
    /\ startPc = "started"
    /\ loopReady # <<>>
    /\ LET i == NextReady(loopReady)
       IN  /\ loopReady' = RemoveAt(loopReady, i)
           /\ IF loopReady[i] = "prefetch"
                THEN /\ \E fails \in BOOLEAN : prefetch_commits_once(fails)
                     /\ UNCHANGED serving
                ELSE /\ serving' = TRUE
                     /\ UNCHANGED <<startLog, cacheVars>>
    /\ UNCHANGED <<startCfg, startPc, firstRequest>>

\* A user request that reads the commits of the selected repository.
HandleRequest ==
    /\ serving
    /\ firstRequest = NoneV
    /\ firstRequest' =
          Some(IF startCfg.selected = NoneV \/ startCfg.branch = NoneV
                 THEN NoneV
                 ELSE GetValue(cache, now,
                               CommitsKey(startCfg.selected[1],
                                          startCfg.branch[1])))
    /\ UNCHANGED <<startCfg, startPc, startLog, loopReady, serving, cacheVars>>

startFrame ==
    UNCHANGED <<tplVars, dispVars, taskVars, setVars, purgeVars, pqVars,
                ctlVars, raceVars, importVars>>

LifespanStepStep ==
    /\ \E fails \in BOOLEAN : LifespanStep(fails)
    /\ startFrame

CachePrefetchSetupStep ==
    /\ \E fails \in BOOLEAN : CachePrefetchSetup(fails)
    /\ startFrame

LifespanYieldStep ==
    /\ LifespanYield
    /\ startFrame

LoopRunStep ==
    /\ LoopRun
    /\ startFrame

HandleRequestStep ==
    /\ HandleRequest
    /\ startFrame

StartIdle(cfg) ==
    /\ startCfg = cfg
    /\ startPc = "init_db"
    /\ startLog = {}
    /\ loopReady = <<>>
    /\ serving = FALSE
    /\ firstRequest = NoneV

\* The default cache settings and a selected repository with commits.
InitStartup ==
    StartIdle([enabled |-> TRUE, prefetch_on_startup |-> TRUE,
               prefetch_items |-> NoneV, selected |-> Some(<<"1", "0">>),
               branch |-> Some("main"), commits |-> Commits])

\* Any cache settings and any repository.
InitStartupAnyConfig == \E cfg \in StartConfigs : StartIdle(cfg)

NextStartup ==
    \/ LifespanStepStep \/ CachePrefetchSetupStep \/ LifespanYieldStep
    \/ LoopRunStep \/ HandleRequestStep

----------------------------------------------------------------------------
(* Bulk template import (routers/settings/templates.py, import_templates)  *)
(* A unit is a YAML file path or an uploaded file, together with what      *)
(* happens when it is processed: reading it raises, its YAML names no      *)
(* template path, the template file is missing, or the template is new or  *)
(* old (a template of that name exists) and create_template returns an id  *)
(* (ok) or nothing (fail).                                                 *)

\* The longest list of units of a request.
MaxUnits == 2

YamlPaths == <<"p1.yaml", "p2.yaml", "p3.yaml">>

Filenames == {"a.txt", "b.j2", "a.exe"}

TemplateNames == {"a", "b"}

\* os.path.splitext on the file names of the model.
splitext(filename) ==
    CASE filename = "a.txt" -> <<"a", ".txt">>
      [] filename = "b.j2" -> <<"b", ".j2">>
      [] filename = "a.exe" -> <<"a", ".exe">>

CreateKinds == {"new_ok", "new_fail", "old_ok", "old_fail"}

\* The YAML file at position i of a request.
YamlUnits(i) ==
    [label : {YamlPaths[i]}, name : TemplateNames,
     kind : {"raises", "no_path", "not_found"} \cup CreateKinds]

FileUnits ==
    [label : Filenames, kind : {"raises"} \cup CreateKinds]

UnitLists(U(_)) ==
    {<<>>} \cup UNION { {f \in [1..n -> UNION {U(i) : i \in 1..n}] :
                            \A i \in 1..n : f[i] \in U(i)} : n \in 1..MaxUnits }

FileUnitsAt(i) == FileUnits

ImportRequests ==
    [source_type : {"yaml_bulk"}, units : UnitLists(YamlUnits),
     overwrite_existing : BOOLEAN]
    \cup [source_type : {"file_bulk"}, units : UnitLists(FileUnitsAt),
          overwrite_existing : BOOLEAN]
    \cup [source_type : {"git_bulk", "zip_bulk"}, units : {<<>>},
          overwrite_existing : BOOLEAN]

NoErrors == [x \in {} |-> ""]

ImportAcc(imported, skipped, failed, errors) ==
    [imported_templates |-> imported, skipped_templates |-> skipped,
     failed_templates |-> failed, errors |-> errors]

\* errors[key] = message
WithError(errors, key, message) ==
    [k \in DOMAIN errors \cup {key} |-> IF k = key THEN message ELSE errors[k]]

Failed(acc, key, message) ==
    [acc EXCEPT !.failed_templates = Append(@, key),
                !.errors = WithError(@, key, message)]

\* failed_templates.append(...) with no entry written to errors.
FailedSilently(acc, key) ==
    [acc EXCEPT !.failed_templates = Append(@, key)]

Skipped(acc, key) == [acc EXCEPT !.skipped_templates = Append(@, key)]

Imported(acc, key) == [acc EXCEPT !.imported_templates = Append(@, key)]

\* The body of the yaml_bulk loop for one path.
ImportYaml(acc, unit, overwrite_existing) ==
    CASE unit.kind = "raises" -> Failed(acc, unit.label, "exception")
      [] unit.kind = "no_path" ->
            Failed(acc, unit.label, "No template path specified in YAML")
      [] unit.kind = "not_found" ->
            Failed(acc, unit.label, "Template file not found")
      [] OTHER ->
            IF ~overwrite_existing /\ unit.kind \in {"old_ok", "old_fail"}
              THEN Skipped(acc, unit.name)
              ELSE IF unit.kind \in {"new_ok", "old_ok"}
                     THEN Imported(acc, unit.name)
                     ELSE Failed(acc, unit.name, "Failed to create template")

\* The body of the file_bulk loop for one uploaded file.
ImportFile(acc, unit, overwrite_existing) ==
    LET name == splitext(unit.label)[1]
        ext == splitext(unit.label)[2]
    IN  IF ext \notin {".txt", ".j2", ".textfsm"}
          THEN Skipped(acc, unit.label)
          ELSE CASE unit.kind = "raises" -> Failed(acc, unit.label, "exception")
                 [] OTHER ->
                    IF ~overwrite_existing
                         /\ unit.kind \in {"old_ok", "old_fail"}
                      THEN Skipped(acc, name)
                      ELSE IF unit.kind \in {"new_ok", "old_ok"}
                             THEN Imported(acc, name)
                             ELSE FailedSilently(acc, name)

\* The loop body of the branch taken for the request's source type.
ImportUnit(acc, unit, req) ==
    IF req.source_type = "yaml_bulk"
      THEN ImportYaml(acc, unit, req.overwrite_existing)
      ELSE ImportFile(acc, unit, req.overwrite_existing)

RECURSIVE ImportLoop(_, _, _)
\* The for loop over the units, from unit i on.
ImportLoop(req, i, acc) ==
    IF i > Len(req.units) THEN acc
    ELSE ImportLoop(req, i + 1, ImportUnit(acc, req.units[i], req))

\* TemplateImportResponse(...)
ImportResponse(acc) ==
    [status |-> 200,
     imported_templates |-> acc.imported_templates,
     skipped_templates |-> acc.skipped_templates,
     failed_templates |-> acc.failed_templates,
     errors |-> acc.errors,
     total_processed |-> Len(acc.imported_templates)
                           + Len(acc.skipped_templates)
                           + Len(acc.failed_templates)]

\* import_templates
import_templates(req) ==
    LET empty == ImportAcc(<<>>, <<>>, <<>>, NoErrors)
    IN  CASE req.source_type = "git_bulk" ->
               ImportResponse(ImportAcc(<<"template1", "template2", "template3">>,
                                        <<>>, <<>>, NoErrors))
          [] req.source_type = "yaml_bulk" ->
               ImportResponse(ImportLoop(req, 1, empty))
          [] req.source_type = "file_bulk" ->
               ImportResponse(ImportLoop(req, 1, empty))
          [] OTHER -> [status |-> 400]

ImportCall ==
    /\ importResp = NoneV
    /\ importResp' = Some(import_templates(importReq))
    /\ UNCHANGED importReq

ImportStep ==
    /\ ImportCall
    /\ UNCHANGED <<tplVars, dispVars, taskVars, setVars, purgeVars, pqVars,
                   ctlVars, raceVars, cacheVars, startVars>>

\* No units to import.
InitImport ==
    /\ importReq = [source_type |-> "yaml_bulk", units |-> <<>>,
                    overwrite_existing |-> FALSE]
    /\ importResp = NoneV

\* Any import request.
InitImportAnyRequest ==
    /\ importReq \in ImportRequests
    /\ importResp = NoneV

NextImport == ImportStep

InitApp == InitRace /\ InitCache /\ InitStartup /\ InitImport

----------------------------------------------------------------------------
(* Specifications                                                          *)

Init ==
    /\ InitTemplates /\ InitDispatch /\ InitTasks /\ InitSettings /\ InitPurge
    /\ InitPurgeQueue /\ InitControl
    /\ InitApp

SpecTemplates == Init /\ [][NextTemplates]_vars

SpecDispatch == Init /\ [][NextDispatch]_vars

SpecTasks == Init /\ [][NextTasks]_vars

SpecSettings == Init /\ [][NextSettings]_vars

\* Startup with any number of configured queues.
InitAnyQueues ==
    /\ InitTemplates /\ InitDispatch /\ InitTasks /\ InitSettings
    /\ InitPurgeAnySize
    /\ InitPurgeQueue /\ InitControl
    /\ InitApp

SpecPurge == InitAnyQueues /\ [][NextPurge]_vars

SpecPurgeQueue == InitAnyQueues /\ [][NextPurgeQueue]_vars

\* Startup with messages already waiting in the queues.
InitAnyDepth ==
    /\ InitTemplates /\ InitDispatch /\ InitTasks /\ InitSettings
    /\ InitPurgeAnyDepth
    /\ InitPurgeQueue /\ InitControl
    /\ InitApp

SpecQueues == InitAnyDepth /\ [][NextQueues]_vars

\* Startup with a small worker fleet already up.
InitSmallFleet ==
    /\ InitTemplates /\ InitDispatch /\ InitTasks /\ InitSettings /\ InitPurge
    /\ InitPurgeQueue /\ InitControlSmallFleet
    /\ InitApp

SpecControl == InitSmallFleet /\ [][NextControl]_vars

\* A probe of a celery_status call returns if Redis answers or refuses it
\* again and again: only a Redis that stays silent can hold it up.
SpecControlLive ==
    /\ InitSmallFleet /\ [][NextControl]_vars
    /\ SF_vars(StatusPingStep) /\ SF_vars(StatusBeatStep)

\* Startup in any environment.
InitAnyEnviron ==
    /\ InitTemplates /\ InitDispatch /\ InitTasks /\ InitSettings /\ InitPurge
    /\ InitPurgeQueue /\ InitControlAnyEnviron
    /\ InitApp

SpecConfig == InitAnyEnviron /\ [][NextConfig]_vars

SpecCleanup == Init /\ [][NextCleanup]_vars

SpecRace == Init /\ [][NextRace]_vars

SpecCache == Init /\ [][NextCache]_vars

SpecClear == Init /\ [][NextClear]_vars

\* A process that receives any import request.
InitAnyImport ==
    /\ InitTemplates /\ InitDispatch /\ InitTasks /\ InitSettings /\ InitPurge
    /\ InitPurgeQueue /\ InitControl
    /\ InitRace /\ InitCache /\ InitStartup /\ InitImportAnyRequest

SpecImport == InitAnyImport /\ [][NextImport]_vars

\* Startup under any cache settings.
InitAnyStartup ==
    /\ InitTemplates /\ InitDispatch /\ InitTasks /\ InitSettings /\ InitPurge
    /\ InitPurgeQueue /\ InitControl
    /\ InitRace /\ InitCache /\ InitStartupAnyConfig /\ InitImport

SpecStartup == InitAnyStartup /\ [][NextStartup]_vars

\* The lifespan and the event loop keep running: a step that can be taken
\* is taken.
SpecStartupLive ==
    InitAnyStartup /\ [][NextStartup]_vars /\ WF_vars(NextStartup)

----------------------------------------------------------------------------
(* Claims about the job template registry                                  *)

\* Is the stored template t in the scope a call targets: the global scope
\* if is_global, otherwise the private scope of user_id.
InTargetScope(t, is_global, user_id) ==
    IF is_global THEN t.is_global ELSE ~t.is_global /\ t.user_id = user_id

\* C1: in every reachable state no two stored templates of the same scope
\* (both global, or both private to the same user) have the same name.
C1_NameUniquePerScope ==
    \A t1 \in templates, t2 \in templates :
        (t1.id # t2.id /\ t1.name = t2.name) => Scope(t1) # Scope(t2)

\* C2: a create whose name is taken in its target scope answers with the
\* duplicate-name error and changes nothing; any other create succeeds and
\* adds exactly the new template, whatever other scopes hold that name.
C2_CreateDuplicateOnlyInTargetScope ==
    [][tplLast'.op = "create" =>
        LET a == tplLast'.args
            taken == \E t \in templates :
                        t.name = a.name /\ InTargetScope(t, a.is_global, a.user_id)
        IN  IF taken
              THEN tplLast'.result = "duplicate" /\ templates' = templates
              ELSE /\ tplLast'.result = "ok"
                   /\ templates' = templates \cup
                        {[id |-> tplLast'.id, name |-> a.name,
                          job_type |-> "example", is_global |-> a.is_global,
                          user_id |-> IF a.is_global THEN None ELSE a.user_id]}
                   /\ tplLast'.id \notin {t.id : t \in templates}]_vars

\* C2 witness: a create was just refused as a duplicate while the same name
\* is stored both as a global and as a private template.
C2_DuplicateRefusedBothScopesStored ==
    /\ tplLast.op = "create"
    /\ tplLast.result = "duplicate"
    /\ \E t1 \in templates, t2 \in templates :
          /\ t1.name = tplLast.args.name /\ t1.is_global
          /\ t2.name = tplLast.args.name /\ ~t2.is_global /\ t2.user_id \in Users

\* C3: in every reachable state a stored template has a user_id if and only
\* if it is not global.
C3_OwnerIffPrivate ==
    \A t \in templates : (t.user_id # None) <=> ~t.is_global

\* C4: delete returns true exactly when the id was stored; afterwards the id
\* is not found, every other template is as before, and deleting an absent
\* id (a repeated delete included) returns false and changes nothing.
C4_DeleteContract ==
    [][tplLast'.op = "delete" =>
        LET id == tplLast'.id
            existed == \E t \in templates : t.id = id
        IN  /\ tplLast'.result = (IF existed THEN "true" ELSE "false")
            /\ get_job_template(templates', id) = {}
            /\ templates' = {t \in templates : t.id # id}
            /\ ~existed => templates' = templates]_vars

\* C4 witness: a delete of an id that was assigned earlier and is already
\* gone (a repeated delete) has just returned false.
C4_RepeatedDeleteReturnedFalse ==
    /\ tplLast.op = "delete"
    /\ tplLast.result = "false"
    /\ tplLast.id < nextId
    /\ templates # {}

----------------------------------------------------------------------------
(* Claims about the job dispatcher                                         *)

\* C5: for a job_type outside the executor table execute_job_type returns
\* success = false with the error "Unknown job type: <job_type>" and calls
\* no executor.
C5_UnknownJobTypeFails ==
    (dispLast.job_type # "none" /\ dispLast.job_type \notin {"example"}) =>
        /\ dispLast.result.success = FALSE
        /\ dispLast.result.error = "Unknown job type: " \o dispLast.job_type
        /\ DOMAIN dispLast.result = {"success", "error"}
        /\ execCalls = <<>>

\* C5 witness: a call with an unregistered, non-empty job type has returned.
C5_UnknownTypeDispatched ==
    /\ dispLast.job_type = "backup"
    /\ dispLast.result.success = FALSE
    /\ dispLast.kw.job_parameters = Some({"vlan"})

----------------------------------------------------------------------------
(* Claims about task status and cancellation                               *)

\* C6: whatever the backend holds for a task id, get_task_status answers
\* with one of the seven states, and with PENDING for an id the backend has
\* no record of.
C6_StatusIsOneOfSeven ==
    taskLast.op = "status" =>
        /\ taskLast.status \in TaskStates
        /\ ~taskLast.known => taskLast.status = "PENDING"

\* C6 witness: a status call for an id the backend has no record of, after
\* some other task has had its state recorded.
C6_UnknownIdPolled ==
    /\ taskLast.op = "status"
    /\ ~taskLast.known
    /\ taskLast.task_id \notin submitted
    /\ \E t \in DOMAIN backend : backend[t] = "PROGRESS"

\* C7 (as claimed): once cancel_task was called on a still-PENDING task,
\* every later get_task_status of that id reports REVOKED.
C7_CancelledPendingReportsRevoked ==
    (taskLast.op = "status" /\ taskLast.task_id \in cancelledPending) =>
        taskLast.status = "REVOKED"

\* C7 (amended): cancel_task leaves the recorded state as it was, so the
\* status right after the call is the status right before it, and a task is
\* recorded REVOKED only once the revocation has reached the workers.
C7_CancelOnlyRequestsRevocation ==
    /\ taskLast.op = "cancel" => taskLast.status = taskLast.before
    /\ \A t \in DOMAIN backend : backend[t] = "REVOKED" => t \in workerRevoked

\* C7 witness: a task cancelled while PENDING was polled afterwards and still
\* reported PENDING, the revocation being on its way.
C7_PolledPendingAfterCancel ==
    /\ taskLast.op = "status"
    /\ taskLast.task_id \in cancelledPending
    /\ taskLast.task_id \in submitted
    /\ taskLast.status = "PENDING"
    /\ taskLast.task_id \in revokeSent

----------------------------------------------------------------------------
(* Claims about the Celery settings                                        *)

\* C8: after any sequence of update_celery_settings calls, accepted or
\* rejected, the stored queue list still holds default, backup, network and
\* heavy.
C8_BuiltInQueuesStay ==
    {"default", "backup", "network", "heavy"} \subseteq StoredNames(celerySettings)

\* C8 witness: an update omitting a built-in queue has just been rejected,
\* after an earlier update was accepted (a custom queue is stored).
C8_RejectedAfterAccepted ==
    /\ setLast.outcome = "400"
    /\ "backup" \in setLast.missing
    /\ "custom1" \in StoredNames(celerySettings)

\* C9: a request whose queues omit built-in queues is rejected with an
\* error listing exactly the omitted built-ins and the stored settings stay
\* as they were; a request listing all four is not rejected and, once the
\* store has taken it, the stored queues are exactly the requested ones, so
\* a custom queue left out is no longer configured.
C9_OmittedBuiltInsRejected ==
    [][setLast'.hasQueues =>
        LET omitted == {"default", "backup", "network", "heavy"} \ setLast'.names
        IN  IF omitted # {}
              THEN /\ setLast'.outcome = "400"
                   /\ setLast'.missing = omitted
                   /\ celerySettings' = celerySettings
              ELSE /\ setLast'.storeOk => setLast'.outcome = "ok"
                   /\ setLast'.outcome = "ok" =>
                        StoredNames(celerySettings') = setLast'.names
                   /\ setLast'.outcome # "ok" => celerySettings' = celerySettings]_vars

\* C9 witness: an accepted request listed the four built-ins and dropped the
\* custom queue that was configured before.
C9_CustomQueueDropped ==
    /\ setLast.outcome = "ok"
    /\ setLast.hasQueues
    /\ "custom1" \in setLast.before
    /\ "custom1" \notin StoredNames(celerySettings)

----------------------------------------------------------------------------
(* Claims about purging                                                    *)

RECURSIVE SumSucceeded(_)
\* The sum of purged_tasks over the results that carry no error.
SumSucceeded(entries) ==
    IF entries = <<>> THEN 0
    ELSE (IF "error" \in DOMAIN Head(entries) THEN 0
                                             ELSE Head(entries).purged_tasks)
         + SumSucceeded(Tail(entries))

\* C10: a purge_all_queues call that returns over N configured queues
\* carries N results, one per queue in order; the result of a queue whose
\* purge raised, and only that one, carries an error and purged_tasks 0;
\* every other queue was drained and reports the number of messages removed
\* from it; total_purged is the sum over the queues that succeeded.
C10_PurgeAllPartialFailure ==
    purgePc = "done" =>
        /\ Len(purged_queues) = Len(task_queues)
        /\ \A k \in 1..Len(task_queues) :
              /\ purged_queues[k].queue = task_queues[k]
              /\ ("error" \in DOMAIN purged_queues[k]) <=> purgeTrace[k].raised
              /\ purgeTrace[k].raised => purged_queues[k].purged_tasks = 0
              /\ ~purgeTrace[k].raised =>
                    /\ purged_queues[k].purged_tasks = purgeTrace[k].drained
                    /\ purgeTrace[k].drained = purgeTrace[k].depth
        /\ total_purged = SumSucceeded(purged_queues)

\* C10 witness: a call returned in which the purge of one non-empty queue
\* raised and a later, non-empty queue was purged all the same.
C10_OneQueueFailedOthersPurged ==
    /\ purgePc = "done"
    /\ \E k \in 1..Len(purged_queues), j \in 1..Len(purged_queues) :
          /\ k < j
          /\ purgeTrace[k].raised /\ purgeTrace[k].depth > 0
          /\ \A i \in 1..Len(purged_queues) : i # k => ~purgeTrace[i].raised
          /\ purged_queues[j].purged_tasks > 0
    /\ total_purged > 0

----------------------------------------------------------------------------
(* Claims about the purge of one queue                                     *)

\* C11: a purge_queue call with a name that is not a configured queue is
\* answered at once with the 404 "Queue '<name>' not found" and leaves the
\* depth of every queue as it was.
C11_UnknownQueueNotFound ==
    [][(purgeCall'.seq # purgeCall.seq
          /\ purgeCall'.queue_name \notin QueueNamesOf(task_queues)) =>
        /\ purgeCall'.pc = "done"
        /\ purgeCall'.response.status = 404
        /\ purgeCall'.response.detail =
              "Queue '" \o purgeCall'.queue_name \o "' not found"
        /\ pending' = pending
        /\ task_queues' = task_queues]_vars

\* C11 witness: an unknown queue name was just refused while messages are
\* waiting in a configured queue.
C11_RefusedWhileMessagesWait ==
    /\ purgeCall.pc = "done"
    /\ purgeCall.queue_name = "custom2"
    /\ purgeCall.response.status = 404
    /\ \E q \in DOMAIN pending : pending[q] > 0

\* C12: a purge_queue call on a configured queue that goes through leaves
\* that queue empty and every other queue as it was, and returns success
\* with purged_tasks equal to the number of messages that were waiting in
\* the queue, 0 for an empty one.
C12_PurgeDrainsOnlyThatQueue ==
    [][(purgeCall.pc = "purge" /\ purgeCall'.pc = "done"
          /\ purgeCall'.response.status = 200) =>
        LET q == purgeCall.queue_name
        IN  /\ q \in QueueNamesOf(task_queues)
            /\ pending'[q] = 0
            /\ \A other \in DOMAIN pending \ {q} : pending'[other] = pending[other]
            /\ DOMAIN pending' = DOMAIN pending
            /\ purgeCall'.response.success = TRUE
            /\ purgeCall'.response.queue = q
            /\ purgeCall'.response.purged_tasks = pending[q]]_vars

\* C12 witness: a second purge of a queue, entered on the empty queue the
\* first purge left, returned 0 with success while another queue still
\* holds messages.
C12_SecondPurgeReturnedZero ==
    /\ purgeCall.pc = "done"
    /\ purgeCall.response.status = 200
    /\ purgeCall.response.success
    /\ purgeCall.response.purged_tasks = 0
    /\ purgeCall.seen = 0
    /\ purgeCall.prev.status = 200
    /\ purgeCall.prev.queue = purgeCall.queue_name
    /\ purgeCall.prev.purged_tasks > 0
    /\ \E q \in DOMAIN pending : pending[q] > 0

\* C13: whatever producers and workers did to the queue while a purge_queue
\* call was under way, the purged_tasks it returns is the number of
\* messages its purge removed.
C13_CountIsWhatWasRemoved ==
    (purgeCall.pc = "done" /\ purgeCall.response.status = 200) =>
        purgeCall.response.purged_tasks = purgeCall.removed

\* C13 witness: a purge returned after the depth of its queue had changed
\* between the entry of the call and the broker purge.
C13_DepthChangedDuringPurge ==
    /\ purgeCall.pc = "done"
    /\ purgeCall.response.status = 200
    /\ purgeCall.seen # purgeCall.removed
    /\ purgeCall.removed > 0

----------------------------------------------------------------------------
(* Claims about the control plane reads                                    *)

RECURSIVE ActiveTasksOf(_)
\* The number of tasks the workers ws are running.
ActiveTasksOf(ws) ==
    IF ws = {} THEN 0
    ELSE LET w == CHOOSE x \in ws : TRUE
         IN  fleet[w].active + ActiveTasksOf(ws \ {w})

\* C14: a list_queues call that succeeds returns one entry per configured
\* queue, in order, and total_queues is their number, whatever workers are
\* up; a queue no worker consumes has active_tasks 0, worker_count 0 and no
\* consuming worker, and the active_tasks of every queue is the number of
\* tasks running on the workers that consume it.
C14_OneEntryPerConfiguredQueue ==
    (ctlLast.op = "list_queues" /\ ctlLast.response.success) =>
        LET r == ctlLast.response
        IN  /\ r.total_queues = Len(task_queues)
            /\ Len(r.queues) = Len(task_queues)
            /\ \A k \in 1..Len(task_queues) :
                  LET e == r.queues[k]
                      consumers == {w \in DOMAIN fleet :
                                      task_queues[k] \in fleet[w].queues}
                  IN  /\ e.name = task_queues[k]
                      /\ e.workers_consuming = consumers
                      /\ e.worker_count = Cardinality(consumers)
                      /\ e.active_tasks = ActiveTasksOf(consumers)
                      /\ consumers = {} =>
                            /\ e.active_tasks = 0
                            /\ e.worker_count = 0
                            /\ e.workers_consuming = {}

\* C14 witness: list_queues answered while one configured queue, with
\* messages waiting, has no consumer and another is consumed by two busy
\* workers.
C14_QueueWithoutConsumerListed ==
    /\ ctlLast.op = "list_queues"
    /\ ctlLast.response.success
    /\ ctlLast.response.total_queues >= 2
    /\ \E i \in 1..Len(ctlLast.response.queues) :
          /\ ctlLast.response.queues[i].worker_count = 0
          /\ ctlLast.response.queues[i].pending_tasks > 0
    /\ \E j \in 1..Len(ctlLast.response.queues) :
          /\ ctlLast.response.queues[j].worker_count = 2
          /\ ctlLast.response.queues[j].active_tasks = 2

ReadOps == {"list_workers", "list_queues", "list_schedules", "beat_status",
            "celery_status", "get_celery_config"}

C17_StatusCallReturns ==
    (ctlLast.op = "celery_status" /\ ctlLast.pc # "done") ~> (ctlLast.pc = "done")

\* C18: beat_status answers beat_running = true exactly when the lock key
\* or the schedule key of beat is in Redis at the call.
C18_BeatRunningIffAKeyExists ==
    (ctlLast.op = "beat_status" /\ ctlLast.response.success) =>
        (ctlLast.response.beat_running
            <=> (beat_lock_key \in beatKeys \/ beat_schedule_key \in beatKeys))

\* C18 witness: beat_status answered true with the schedule key alone.
C18_RunningOnScheduleKeyAlone ==
    /\ ctlLast.op = "beat_status"
    /\ ctlLast.response.success
    /\ ctlLast.response.beat_running
    /\ beatKeys = {beat_schedule_key}

\* C19: the answer of get_celery_config is the same for every non-empty
\* password, and the same for an empty and an unset one; has_password tells
\* the two cases apart and no other field of the Redis section holds the
\* password.
C19_ConfigHidesPassword ==
    ctlLast.op = "get_celery_config" =>
        LET password == Getenv(environ.COCKPIT_REDIS_PASSWORD, "")
            redis == ctlLast.response.config.redis
            Alike == IF password = "" THEN {None, ""}
                                      ELSE Passwords \ {None, ""}
        IN  /\ \A p \in Alike :
                  ConfigResponse([environ EXCEPT !.COCKPIT_REDIS_PASSWORD = p])
                     = ctlLast.response
            /\ redis.has_password = (password # "")
            /\ password # "" =>
                  \A k \in DOMAIN redis \ {"has_password"} : redis[k] # password

\* C19 witness: the configuration was read in an environment with a
\* password, a host and a port set.
C19_ConfigReadWithPassword ==
    /\ ctlLast.op = "get_celery_config"
    /\ environ.COCKPIT_REDIS_PASSWORD = "hunter2"
    /\ ctlLast.response.config.redis.has_password
    /\ ctlLast.response.config.redis.host = "redis.local"

----------------------------------------------------------------------------
(* Claims about the cleanup statistics                                     *)

\* C20: a get_cleanup_stats call leaves the stored result records as they
\* are, and one that succeeds reports the number of records present, the
\* retention hours in force (24 when none is stored) and the cutoff, the
\* current time less those hours.
C20_CleanupStatsIsPureRead ==
    [][ctlLast'.op = "get_cleanup_stats" =>
        /\ resultKeys' = resultKeys
        /\ ctlLast'.response.success =>
              LET stats == ctlLast'.response.stats
                  hours == IF cleanup_age_hours = NoneV
                             THEN 24 ELSE cleanup_age_hours[1]
              IN  /\ stats.total_result_keys = Cardinality(resultKeys)
                  /\ stats.cleanup_age_hours = hours
                  /\ stats.cutoff_time = isoformat(clock - hours)]_vars

\* C20 witness: the statistics were read with two records stored, a
\* retention of 48 hours in force and the clock advanced.
C20_StatsReadWithRecordsStored ==
    /\ ctlLast.op = "get_cleanup_stats"
    /\ ctlLast.response.success
    /\ ctlLast.response.stats.total_result_keys = 2
    /\ Cardinality(resultKeys) = 2
    /\ ctlLast.response.stats.cleanup_age_hours = 48
    /\ clock > 0

----------------------------------------------------------------------------
(* Claims about the two beat readings                                      *)

\* C26: for the same store state, the beat_running value that celery_status
\* reports equals the beat_running value that beat_status computes from the
\* lock key and the schedule key.
C26_StatusBeatEqualsBeatStatus ==
    (ctlLast.op = "celery_status" /\ ctlLast.pc = "done"
        /\ ctlLast.failed = {}) =>
        ctlLast.response.status.beat_running =
            BeatRunning(Exists(beatKeys, beat_lock_key),
                        Exists(beatKeys, beat_schedule_key))

----------------------------------------------------------------------------
(* Claims about the stored queue list                                      *)

\* C28: after every accepted update_celery_settings request that carries a
\* queues list, each stored queue has built_in = TRUE exactly when its name
\* is one of default, backup, network, heavy, whatever the caller supplied.
C28_BuiltInIffBuiltInName ==
    (setLast.outcome = "ok" /\ setLast.hasQueues) =>
        \A q \in celerySettings.queues[1] :
            q.built_in = (q.name \in built_in_queue_names)

\* C29: update_celery_settings changes only the settings fields that are set
\* in the request: every stored field the request leaves unset keeps its
\* value, and a request with no fields leaves the stored settings as they
\* were.
C29_UnsetFieldsKeepTheirValue ==
    [][/\ \A k \in DOMAIN celerySettings :
            k \notin setLast'.fields =>
                /\ k \in DOMAIN celerySettings'
                /\ celerySettings'[k] = celerySettings[k]
       /\ DOMAIN celerySettings' \subseteq
              DOMAIN celerySettings \cup setLast'.fields
       /\ setLast'.fields = {} => celerySettings' = celerySettings]_vars

\* C29 witness: an accepted request that set max_workers alone, with the
\* custom queue and the cleanup switch of earlier requests still stored.
C29_OnlyMaxWorkersSet ==
    /\ setLast.outcome = "ok"
    /\ setLast.fields = {"max_workers"}
    /\ celerySettings.max_workers = Some(8)
    /\ celerySettings.cleanup_enabled = Some(FALSE)
    /\ "custom1" \in StoredNames(celerySettings)

----------------------------------------------------------------------------
(* Claims about the executor call                                          *)

\* C30: for a registered job_type execute_job_type calls the executor mapped
\* to that type exactly once, hands it schedule_id, credential_id,
\* job_parameters, target_devices, template and job_run_id as it received
\* them, and returns the executor's result as it is, with a boolean success.
C30_RegisteredTypeRunsItsExecutorOnce ==
    dispLast.job_type \in DOMAIN job_executors =>
        /\ Len(execCalls) = 1
        /\ execCalls[1].executor = job_executors[dispLast.job_type]
        /\ execCalls[1].kw = dispLast.kw
        /\ dispLast.result = RunExecutor(execCalls[1].executor, dispLast.kw)
        /\ dispLast.result.success \in BOOLEAN

\* C30 witness: an example job was dispatched with a template, parameters,
\* a device, a schedule and a job run, and the executor reported success.
C30_ExampleDispatchedWithTemplate ==
    /\ dispLast.job_type = "example"
    /\ dispLast.kw # NoneV
    /\ dispLast.kw.template = Some({"name"})
    /\ dispLast.kw.job_parameters = Some({"vlan"})
    /\ dispLast.kw.target_devices = Some(<<"dev1">>)
    /\ dispLast.kw.job_run_id = Some(1)
    /\ Len(execCalls) = 1
    /\ dispLast.result.success

----------------------------------------------------------------------------
(* Claims about concurrent creates                                         *)

\* C25: when two concurrent create_job_template calls with the same name and
\* the same target scope have both returned, at most one of them has
\* succeeded and at most one template with that name exists in that scope.
C25_OneCreateWinsPerNameAndScope ==
    \A c \in Callers : \A d \in Callers \ {c} :
        (/\ creating[c].pc = "done" /\ creating[d].pc = "done"
         /\ creating[c].name = creating[d].name
         /\ CreateScope(creating[c].user_id, creating[c].is_global)
              = CreateScope(creating[d].user_id, creating[d].is_global))
        => /\ ~(creating[c].result = "created"
                  /\ creating[d].result = "created")
           /\ Cardinality({t \in templates :
                  /\ t.name = creating[c].name
                  /\ t.user_id = CreateScope(creating[c].user_id,
                                             creating[c].is_global)}) <= 1

----------------------------------------------------------------------------
(* Claims about the cache                                                  *)

\* C21: set(k, v, ttl) followed by get(k) before ttl has elapsed returns v,
\* and once ttl has elapsed get(k) returns absent, whether or not
\* cleanup_expired was called: a get answers from the entry's deadline
\* alone, the passing of time, a get and a cleanup_expired leave the answer
\* any later get gives as it was, and cleanup_expired removes only entries
\* a get already treats as absent.
C21_RoundTripAndLazyExpiry ==
    [][/\ cacheLast'.op = "set" =>
            LET call == cacheLast'.arg
            IN  \A t \in now..(MaxNow + 3) :
                   /\ t - now < call.ttl =>
                         GetValue(cache', t, call.key) = Some(call.value)
                   /\ t - now > call.ttl =>
                         GetValue(cache', t, call.key) = NoneV
       /\ cacheLast'.op = "get" =>
            LET k == cacheLast'.arg
            IN  /\ (k \in DOMAIN cache /\ now < cache[k].expires_at) =>
                      cacheLast'.answer = Some(cache[k].value)
                /\ (k \notin DOMAIN cache \/ now > cache[k].expires_at) =>
                      cacheLast'.answer = NoneV
       /\ cacheLast'.op \in {"get", "cleanup_expired", "none"} =>
            \A k \in CacheKeys : \A t \in now'..(MaxNow + 3) :
                GetValue(cache', t, k) = GetValue(cache, t, k)
       /\ cacheLast'.op = "cleanup_expired" =>
            /\ \A k \in DOMAIN cache \ DOMAIN cache' :
                  GetValue(cache, now, k) = NoneV
            /\ cacheLast'.answer.removed_count =
                  Cardinality(DOMAIN cache \ DOMAIN cache')]_vars

\* C21 witness: a get was answered absent for a key whose entry, past its
\* deadline, is still stored: no cleanup_expired has removed it.
C21_ExpiredEntryReadAsAbsent ==
    /\ cacheLast.op = "get"
    /\ cacheLast.answer = NoneV
    /\ cacheLast.arg \in DOMAIN cache
    /\ now > cache[cacheLast.arg].expires_at

\* C22: clear_namespace(ns) removes exactly the entries whose key is ns, a
\* ':' and a rest, and returns their number; the entries of every other
\* namespace, repo:10 and repo:2 when repo:1 is cleared, stay as they were.
C22_ClearRemovesExactlyTheNamespace ==
    [][(cacheLast'.op = "clear" /\ cacheLast'.arg # <<>>) =>
        LET mine == {Key(cacheLast'.arg, r) : r \in Rests}
        IN  /\ DOMAIN cache' = DOMAIN cache \ mine
            /\ \A k \in DOMAIN cache' : cache'[k] = cache[k]
            /\ cacheLast'.answer.cleared_count =
                  Cardinality(DOMAIN cache \cap mine)]_vars

\* C22 witness: repo:1 was cleared of two entries while repo:10 and repo:2
\* held entries, which are still there.
C22_ClearedRepo1BesideRepo10 ==
    /\ cacheLast.op = "clear"
    /\ cacheLast.arg = <<"repo:", "1">>
    /\ cacheLast.answer.cleared_count = 2
    /\ Key(<<"repo:", "1", "0">>, "commits:main") \in DOMAIN cache
    /\ Key(<<"repo:", "2">>, "commits:main") \in DOMAIN cache

----------------------------------------------------------------------------
(* Claims about startup                                                    *)

\* Caching, startup prefetch and the git prefetch item are enabled and a
\* repository with commits is selected.
PrefetchExpected ==
    /\ GitPrefetchScheduled(startCfg)
    /\ startCfg.selected # NoneV
    /\ startCfg.commits # <<>>

C27_ServingIffDatabaseInitialised ==
    /\ [](("init_db" \in startLog) <=> (startPc = "aborted"))
    /\ [](startPc = "aborted" => ~serving)
    /\ (startPc \notin {"init_db", "aborted"}) ~> serving

\* C27 witness: the server serves although every step after init_db, the
\* prefetch task included, has failed.
C27_ServingAfterEveryOtherFailure ==
    /\ serving
    /\ startLog = {"builtin_queues", "ssh_keys", "admin_rbac", "next_runs",
                   "prefetch_task"}

----------------------------------------------------------------------------
(* Claims about the bulk import                                            *)

\* The template name of a unit: the name its YAML gives, or the file name
\* without its extension.
UnitName(req, unit) ==
    IF req.source_type = "yaml_bulk" THEN unit.name
                                     ELSE splitext(unit.label)[1]

ReportedLabels(resp) ==
    {resp.imported_templates[i] : i \in 1..Len(resp.imported_templates)}
    \cup {resp.skipped_templates[i] : i \in 1..Len(resp.skipped_templates)}
    \cup {resp.failed_templates[i] : i \in 1..Len(resp.failed_templates)}

\* C24: a yaml_bulk or file_bulk import answers for all its units whatever
\* fails on one of them: every unit is reported, by its path, file name or
\* template name, in one of imported_templates, skipped_templates and
\* failed_templates, the three lists hold as many reports as there are
\* units, total_processed is the number of units, and errors holds an
\* entry for every failed unit.
C24_EveryUnitReportedAndExplained ==
    (importResp # NoneV
        /\ importReq.source_type \in {"yaml_bulk", "file_bulk"}) =>
        LET resp == importResp[1]
            units == importReq.units
        IN  /\ resp.status = 200
            /\ Len(resp.imported_templates) + Len(resp.skipped_templates)
                  + Len(resp.failed_templates) = Len(units)
            /\ resp.total_processed = Len(units)
            /\ \A i \in 1..Len(units) :
                  \/ units[i].label \in ReportedLabels(resp)
                  \/ UnitName(importReq, units[i]) \in ReportedLabels(resp)
            /\ \A i \in 1..Len(resp.failed_templates) :
                  resp.failed_templates[i] \in DOMAIN resp.errors
            /\ Cardinality(DOMAIN resp.errors) = Len(resp.failed_templates)

====
